---- MODULE Spec2Model ----
(***************************************************************************)
(* url2ref: metadata resolution and citation synthesis.                    *)
(*                                                                         *)
(* The module models                                                       *)
(*   - the priority resolver of parser.rs (parse, AttributeCollection,     *)
(*     MultiSourceAttributeCollection),                                    *)
(*   - create_reference of generator.rs with its AI fallback, title        *)
(*     translation and the Wayback archive resolver,                       *)
(*   - the three citation builders of citation.rs.                         *)
(*                                                                         *)
(* Option<T> is a sequence of length at most one: None is <<>> and         *)
(* Some(x) is <<x>>.  Text that the code inspects (names, timestamps,      *)
(* redirect locations) is a sequence of tokens, each token a string.       *)
(***************************************************************************)
EXTENDS Naturals, Integers, Sequences, FiniteSets, TLC

VARIABLES
    pc,            \* position of the request in create_reference / the resolver
    parse_info,    \* ParseInfo: url, per-source metadata, zotero_result
    options,       \* GenerationOptions: attribute_config, translation, archive, ai
    attributes,    \* AttributeCollection.attributes (field -> Option<Attribute>)
    multi,         \* MultiSourceAttributeCollection.attributes
    ref,           \* the locals of create_reference that become the Reference
    wayback,       \* Option<WaybackSnapshot> inside fetch_archive_info
    calls,         \* the external calls issued so far, in order
    ai_seen,       \* the AI response received (Option), kept for inspection
    fetched,       \* the locals of ParseInfo::from_url while it runs
    builder,       \* the three citation builders' accumulated state
    prev,          \* the builders' state before the last builder operation
    last_op        \* the last builder operation and its argument

vars == <<pc, parse_info, options, attributes, multi, ref, wayback, calls,
          ai_seen, fetched, builder, prev, last_op>>

----------------------------------------------------------------------------
(* Option<T> *)

None == <<>>
Some(x) == <<x>>
IsSome(o) == o # <<>>
IsNone(o) == o = <<>>
Unwrap(o) == o[1]
\* Option::or
OrElse(a, b) == IF IsSome(a) THEN a ELSE b

----------------------------------------------------------------------------
(* Bounds of the model *)

\* longest priority list of an AttributePriority
MaxPriorityLen == 2
\* longest Authors list handed to a citation builder
MaxAuthors == 3
\* most builder operations applied to one builder
MaxOps == 2

----------------------------------------------------------------------------
(* attribute.rs *)

AttributeType ==
    {"Title", "Author", "Locale", "Language", "Site", "Date", "ArchiveDate",
     "Url", "ArchiveUrl", "Type", "Journal", "Publisher", "Institution", "Volume"}

\* generator.rs MetadataType
MetadataType == {"OpenGraph", "SchemaOrg", "HtmlMeta", "Doi", "Zotero", "Ai"}

\* An Attribute carried through the resolver: its variant and its payload.
Attr(type, val) == [type |-> type, val |-> val]

----------------------------------------------------------------------------
(* parser.rs: the per-source parsers, as seen by the resolver.             *)
(* A page's metadata is the table of what each source's parse yields.      *)

\* the sources that read the page (parse_info.html / bibliography)
PageSources == {"OpenGraph", "SchemaOrg", "HtmlMeta", "Doi"}

\* the fields Zotero::parse_from_result has an arm for
ZoteroFields ==
    {"Title", "Author", "Date", "Language", "Site", "Url", "Journal",
     "Publisher", "Volume"}

OpenGraph_parse_attribute(pi, attribute_type) == pi.meta["OpenGraph"][attribute_type]
SchemaOrg_parse_attribute(pi, attribute_type) == pi.meta["SchemaOrg"][attribute_type]
HtmlMeta_parse_attribute(pi, attribute_type) == pi.meta["HtmlMeta"][attribute_type]
Doi_parse_attribute(pi, attribute_type) == pi.meta["Doi"][attribute_type]

Zotero_parse_from_result(result, attribute_type) ==
    IF attribute_type \in ZoteroFields THEN result[attribute_type] ELSE None

\* the match on MetadataType in parse
ParseBySource(pi, format, attribute_type) ==
    CASE format = "OpenGraph" -> OpenGraph_parse_attribute(pi, attribute_type)
      [] format = "SchemaOrg" -> SchemaOrg_parse_attribute(pi, attribute_type)
      [] format = "HtmlMeta"  -> HtmlMeta_parse_attribute(pi, attribute_type)
      [] format = "Doi"       -> Doi_parse_attribute(pi, attribute_type)
      [] format = "Zotero"    ->
            IF IsSome(pi.zotero_result)
            THEN Zotero_parse_from_result(Unwrap(pi.zotero_result), attribute_type)
            ELSE None
      [] format = "Ai"        -> None

\* parse with the loop returning the last Some instead of the first
RECURSIVE parseLastWins(_, _, _)
parseLastWins(pi, attribute_type, priority) ==
    IF priority = <<>> THEN None
    ELSE LET rest == parseLastWins(pi, attribute_type, Tail(priority))
         IN  IF IsSome(rest) THEN rest
             ELSE ParseBySource(pi, Head(priority), attribute_type)

\* parse: the first Some in priority order
RECURSIVE parse(_, _, _)
parse(pi, attribute_type, priority) ==
    IF priority = <<>> THEN None
    ELSE LET attribute == ParseBySource(pi, Head(priority), attribute_type)
         IN  IF IsSome(attribute) THEN attribute
             ELSE parse(pi, attribute_type, Tail(priority))

----------------------------------------------------------------------------
(* generator.rs: attribute_config *)

\* impl Default for AttributePriority
DefaultPriority == <<"OpenGraph", "SchemaOrg", "HtmlMeta">>

\* the fields of struct AttributeConfig
ConfigFields ==
    {"title", "authors", "date", "archive_date", "language", "locale", "site",
     "url", "archive_url", "journal", "publisher", "institution", "volume"}

\* AttributeConfig::default(): no field configured
AttributeConfig_default == [k \in ConfigFields |-> None]

\* AttributeConfig::new(priority): every field gets the same list
AttributeConfig_new(priority) == [k \in ConfigFields |-> Some(priority)]

\* AttributeConfig::get
AttributeConfig_get(config, attribute_type) ==
    CASE attribute_type = "Title"       -> config.title
      [] attribute_type = "Author"      -> config.authors
      [] attribute_type = "Date"        -> config.date
      [] attribute_type = "ArchiveDate" -> config.archive_date
      [] attribute_type = "Language"    -> config.language
      [] attribute_type = "Locale"      -> config.locale
      [] attribute_type = "Site"        -> config.site
      [] attribute_type = "Url"         -> config.url
      [] attribute_type = "ArchiveUrl"  -> config.archive_url
      [] attribute_type = "Type"        -> None
      [] attribute_type = "Journal"     -> config.journal
      [] attribute_type = "Publisher"   -> config.publisher
      [] attribute_type = "Volume"      -> config.volume
      [] attribute_type = "Institution" -> config.institution

\* Option<AttributePriority>::unwrap_or_default
UnwrapOrDefault(priorities) ==
    IF IsSome(priorities) THEN Unwrap(priorities) ELSE DefaultPriority

----------------------------------------------------------------------------
(* parser.rs: AttributeCollection and MultiSourceAttributeCollection *)

\* add that resolves every attribute type with the default priority list
AttributeCollection_add_default_priority(config, pi, attribute_type) ==
    parse(pi, attribute_type, DefaultPriority)

\* AttributeCollection::add followed by insert_if, for one attribute type
AttributeCollection_add(config, pi, attribute_type) ==
    parse(pi, attribute_type,
          UnwrapOrDefault(AttributeConfig_get(config, attribute_type)))

\* AttributeCollection::initialize: add_all over AttributeType::iter().
\* A type with no entry in the HashMap maps to None.
AttributeCollection_initialize(config, pi) ==
    [t \in AttributeType |-> AttributeCollection_add(config, pi, t)]

\* the sources array of parse_all
AllSources == {"OpenGraph", "SchemaOrg", "HtmlMeta", "Doi", "Zotero"}

\* a collection that stops at the first source of the array with a value
MultiSourceValues_short_circuit(pi, attr_type) ==
    LET order  == <<"OpenGraph", "SchemaOrg", "HtmlMeta", "Doi", "Zotero">>
        having == {i \in 1..Len(order) : IsSome(ParseBySource(pi, order[i], attr_type))}
        first  == {i \in having : \A j \in having : i <= j}
    IN  [s \in {order[i] : i \in first} |-> Unwrap(ParseBySource(pi, s, attr_type))]

\* one MultiSourceMetadata.values: the sources with a value for the type
MultiSourceValues(pi, attr_type) ==
    LET having == {s \in AllSources : IsSome(ParseBySource(pi, s, attr_type))}
    IN  [s \in having |-> Unwrap(ParseBySource(pi, s, attr_type))]

\* MultiSourceAttributeCollection::parse_all: a key only for non-empty values
MultiSource_parse_all(pi) ==
    LET keyed == {t \in AttributeType : DOMAIN MultiSourceValues(pi, t) # {}}
    IN  [t \in keyed |-> MultiSourceValues(pi, t)]

----------------------------------------------------------------------------
(* generator.rs: the Wayback archive resolver *)

Digits == {"0", "1", "2", "3", "4", "5", "6", "7", "8", "9"}
DigitVal(c) == CHOOSE n \in 0..9 : ToString(n) = c

\* the number written by a sequence of digit tokens
RECURSIVE Number(_)
Number(ds) ==
    IF ds = <<>> THEN 0
    ELSE 10 * Number(SubSeq(ds, 1, Len(ds) - 1)) + DigitVal(ds[Len(ds)])

IsLeap(y) == (y % 4 = 0 /\ y % 100 # 0) \/ y % 400 = 0
DaysInMonth(y, m) ==
    IF m = 2 THEN (IF IsLeap(y) THEN 29 ELSE 28)
    ELSE IF m \in {4, 6, 9, 11} THEN 30 ELSE 31

\* parse_wayback_timestamp: NaiveDateTime::parse_from_str(ts, "%Y%m%d%H%M%S").
\* Four digits of year and two of each other component, nothing left over,
\* and the components must name a date and a time of day.
parse_wayback_timestamp(timestamp) ==
    IF Len(timestamp) # 14 \/ \E i \in 1..Len(timestamp) : timestamp[i] \notin Digits
    THEN None
    ELSE LET year   == Number(SubSeq(timestamp, 1, 4))
             month  == Number(SubSeq(timestamp, 5, 6))
             day    == Number(SubSeq(timestamp, 7, 8))
             hour   == Number(SubSeq(timestamp, 9, 10))
             minute == Number(SubSeq(timestamp, 11, 12))
             second == Number(SubSeq(timestamp, 13, 14))
         IN  IF /\ month \in 1..12
                /\ day \in 1..DaysInMonth(year, month)
                /\ hour <= 23 /\ minute <= 59 /\ second <= 60
             THEN Some([year |-> year, month |-> month, day |-> day,
                        hour |-> hour, minute |-> minute, second |-> second])
             ELSE None

\* the leading digits of a text: chars().take_while(is_ascii_digit)
RECURSIVE TakeWhileDigit(_)
TakeWhileDigit(text) ==
    IF text = <<>> \/ Head(text) \notin Digits THEN <<>>
    ELSE <<Head(text)>> \o TakeWhileDigit(Tail(text))

\* location.split("/web/"): the parts between the "/web/" tokens
RECURSIVE SplitWeb(_)
SplitWeb(location) ==
    IF \A i \in 1..Len(location) : location[i] # "/web/" THEN <<location>>
    ELSE LET i == CHOOSE k \in 1..Len(location) :
                      /\ location[k] = "/web/"
                      /\ \A j \in 1..(k - 1) : location[j] # "/web/"
         IN  <<SubSeq(location, 1, i - 1)>>
                 \o SplitWeb(SubSeq(location, i + 1, Len(location)))

\* parse_wayback_location accepting any run of digits after /web/
parse_wayback_location_any_length(location) ==
    LET parts == SplitWeb(location)
    IN  IF Len(parts) >= 2 THEN Some(TakeWhileDigit(parts[2])) ELSE None

\* parse_wayback_location
parse_wayback_location(location) ==
    LET parts == SplitWeb(location)
    IN  IF Len(parts) >= 2
        THEN LET timestamp == TakeWhileDigit(parts[2])
             IN  IF Len(timestamp) = 14 THEN Some(timestamp) ELSE None
        ELSE None

\* struct WaybackSnapshot (status and available are never read)
WaybackSnapshot(url, timestamp) == [url |-> url, timestamp |-> timestamp]

\* Result<T, E>
Ok(x) == [ok |-> TRUE, val |-> Some(x), err |-> ""]
Err(e) == [ok |-> FALSE, val |-> None, err |-> e]
\* Result::ok
ResultOk(r) == r.val

----------------------------------------------------------------------------
(* The archive service as the resolver sees it *)

TsValid     == <<"2","0","2","6","0","1","2","4","1","2","1","5","0","5">>
TsBadMonth  == <<"2","0","2","6","1","3","2","4","1","2","1","5","0","5">>
TsBadDay    == <<"2","0","2","5","0","2","2","9","1","2","1","5","0","5">>
TsShort     == <<"2","0","2","6","0","1","2","4">>
TsNotDigits == <<"i","n","v","a","l","i","d">>

Host == "https://web.archive.org"
Page == "https://example.com/article"
ArchivedUrl(ts) == <<Host, "/web/">> \o ts \o <<"/", Page>>

\* call_wayback_api: what the availability query can return
QueryOutcomes ==
    {Ok(WaybackSnapshot(ArchivedUrl(ts), ts)) :
        ts \in {TsValid, TsBadDay, TsNotDigits}}
    \cup {Err("CurlError"), Err("DeserializeError")}

\* get_redirect_location: what the save request can return
RedirectOutcomes ==
    {Ok(ArchivedUrl(ts)) : ts \in {TsValid, TsBadMonth, TsShort}}
    \cup {Ok(<<Host, "/save/", Page>>), Err("GetError"), Err("NoRedirectLocation")}

----------------------------------------------------------------------------
(* ai_extractor.rs *)

\* the fields the AI fallback can fill
AiFields == {"Title", "Author", "Date", "Site", "Publisher", "Language"}

AiDateYmd     == <<"2","0","2","4","-","0","1","-","1","5">>
AiDateInvalid == <<"i","n","v","a","l","i","d">>

AllDigits(text) == text # <<>> /\ \A i \in 1..Len(text) : text[i] \in Digits

\* parse_ai_date: YYYY-MM-DD, then YYYY-MM (7 characters), then YYYY (4)
parse_ai_date(date_str) ==
    LET n == Len(date_str)
        dashes == {i \in 1..n : date_str[i] = "-"}
    IN  IF /\ n = 10 /\ dashes = {5, 8}
           /\ AllDigits(SubSeq(date_str, 1, 4))
           /\ AllDigits(SubSeq(date_str, 6, 7))
           /\ AllDigits(SubSeq(date_str, 9, 10))
           /\ Number(SubSeq(date_str, 6, 7)) \in 1..12
           /\ Number(SubSeq(date_str, 9, 10))
                \in 1..DaysInMonth(Number(SubSeq(date_str, 1, 4)),
                                   Number(SubSeq(date_str, 6, 7)))
        THEN Some([variant |-> "YearMonthDay",
                   year  |-> Number(SubSeq(date_str, 1, 4)),
                   month |-> Number(SubSeq(date_str, 6, 7)),
                   day   |-> Number(SubSeq(date_str, 9, 10))])
        ELSE IF /\ n = 7 /\ Cardinality(dashes) = 1
                /\ \E d \in dashes :
                      /\ AllDigits(SubSeq(date_str, 1, d - 1))
                      /\ AllDigits(SubSeq(date_str, d + 1, n))
        THEN LET d == CHOOSE d \in dashes : TRUE
             IN  Some([variant |-> "YearMonth",
                       year  |-> Number(SubSeq(date_str, 1, d - 1)),
                       month |-> Number(SubSeq(date_str, d + 1, n)),
                       day   |-> 0])
        ELSE IF n = 4 /\ AllDigits(date_str)
        THEN Some([variant |-> "Year", year |-> Number(date_str),
                   month |-> 0, day |-> 0])
        ELSE None

\* Option::map(Attribute::X)
MapAttr(type, o) == IF IsSome(o) THEN Some(Attr(type, Unwrap(o))) ELSE None

\* get_attribute_from_ai
get_attribute_from_ai(metadata, attribute_type) ==
    CASE attribute_type = "Title" -> MapAttr("Title", metadata.title)
      [] attribute_type = "Author" ->
            IF IsSome(metadata.authors) /\ Unwrap(metadata.authors) # <<>>
            THEN Some(Attr("Authors", Unwrap(metadata.authors)))
            ELSE None
      [] attribute_type = "Date" ->
            IF IsSome(metadata.date)
            THEN MapAttr("Date", parse_ai_date(Unwrap(metadata.date)))
            ELSE None
      [] attribute_type = "Site" -> MapAttr("Site", metadata.site)
      [] attribute_type = "Publisher" -> MapAttr("Publisher", metadata.publisher)
      [] attribute_type = "Language" -> MapAttr("Language", metadata.language)
      [] OTHER -> None

\* An AiExtractedMetadata with the fields of `present` set; `plain` tells
\* whether the authors list is non-empty and the date string parses.
AiMetadata(present, plain) ==
    [title     |-> IF "Title" \in present THEN Some("AI title") ELSE None,
     authors   |-> IF "Author" \in present
                   THEN Some(IF plain THEN <<"AI author">> ELSE <<>>) ELSE None,
     date      |-> IF "Date" \in present
                   THEN Some(IF plain THEN AiDateYmd ELSE AiDateInvalid) ELSE None,
     site      |-> IF "Site" \in present THEN Some("AI site") ELSE None,
     publisher |-> IF "Publisher" \in present THEN Some("AI publisher") ELSE None,
     language  |-> IF "Language" \in present THEN Some("ai") ELSE None]

\* the subsets of S that hold at most one or miss at most one element
NearExtremes(S) ==
    {A \in SUBSET S : Cardinality(A) <= 1 \/ Cardinality(S \ A) <= 1}

\* extract_metadata: what the AI call can return
AiOutcomes ==
    {Ok(AiMetadata(present, plain)) :
        present \in NearExtremes(AiFields), plain \in BOOLEAN}
    \cup {Err("AiExtractionError")}

----------------------------------------------------------------------------
(* generator.rs: create_reference *)

\* the locals read without the fallback of the url to the user-supplied one
CollectLocals_without_url_fallback(attrs, pi) ==
    [title            |-> attrs["Title"],
     translated_title |-> None,
     author           |-> attrs["Author"],
     date             |-> attrs["Date"],
     language         |-> attrs["Language"],
     site             |-> attrs["Site"],
     url              |-> attrs["Url"],
     publisher        |-> attrs["Publisher"],
     archive_url      |-> None,
     archive_date     |-> None]

\* the locals of create_reference read from the collection (lines 262-269);
\* the url falls back to the user-supplied one
CollectLocals(attrs, pi) ==
    [title            |-> attrs["Title"],
     translated_title |-> None,
     author           |-> attrs["Author"],
     date             |-> attrs["Date"],
     language         |-> attrs["Language"],
     site             |-> attrs["Site"],
     url              |-> OrElse(attrs["Url"], MapAttr("Url", pi.url)),
     publisher        |-> attrs["Publisher"],
     archive_url      |-> None,
     archive_date     |-> None]

\* missing_fields (lines 283-284)
MissingFields(r) ==
    \/ IsNone(r.title) \/ IsNone(r.author) \/ IsNone(r.date)
    \/ IsNone(r.site) \/ IsNone(r.publisher) \/ IsNone(r.language)

\* the guards with the test of parse_info.url dropped
AiCallIssued_without_url(r, pi, opts) ==
    opts.ai_options.enabled /\ MissingFields(r)

\* the guards around extract_metadata (lines 281, 289, 292)
AiCallIssued(r, pi, opts) ==
    opts.ai_options.enabled /\ MissingFields(r) /\ IsSome(pi.url)

\* the overlay with the is_none tests dropped: the AI value always taken
AiOverlayOverwrite(r, m) ==
    [r EXCEPT !.title     = get_attribute_from_ai(m, "Title"),
              !.author    = get_attribute_from_ai(m, "Author"),
              !.date      = get_attribute_from_ai(m, "Date"),
              !.site      = get_attribute_from_ai(m, "Site"),
              !.publisher = get_attribute_from_ai(m, "Publisher"),
              !.language  = get_attribute_from_ai(m, "Language")]

\* "Only fill in missing fields from AI" (lines 303-327)
AiOverlay(r, m) ==
    [r EXCEPT
       !.title     = IF IsNone(@) THEN get_attribute_from_ai(m, "Title") ELSE @,
       !.author    = IF IsNone(@) THEN get_attribute_from_ai(m, "Author") ELSE @,
       !.date      = IF IsNone(@) THEN get_attribute_from_ai(m, "Date") ELSE @,
       !.site      = IF IsNone(@) THEN get_attribute_from_ai(m, "Site") ELSE @,
       !.publisher = IF IsNone(@) THEN get_attribute_from_ai(m, "Publisher") ELSE @,
       !.language  = IF IsNone(@) THEN get_attribute_from_ai(m, "Language") ELSE @]

\* translate_title / translate / translate_with_*: whether the request
\* reaches the translation service at all
TranslationCallIssued(title, topts) ==
    /\ IsSome(title) /\ Unwrap(title).type = "Title"
    /\ IsSome(topts.target)
    /\ \/ topts.provider = "DeepL" /\ IsSome(topts.deepl_key)
       \/ topts.provider = "Google" /\ IsSome(topts.google_key)

\* translate_title(...).ok() given the service's answer
TranslatedTitle(topts, answer) ==
    IF answer.ok
    THEN Some(Attr("TranslatedTitle",
                   [text |-> Unwrap(answer.val), language |-> Unwrap(topts.target)]))
    ELSE None

\* what the translation service can return
TranslationOutcomes == {Ok("translated"), Err("TranslationError")}

\* one entry of the log of external calls
Call(op, result) == [op |-> op, result |-> result]
Outcome(r) == IF r.ok THEN "Ok" ELSE r.err

----------------------------------------------------------------------------
(* Requests *)

UserUrl == "https://example.com/article"

\* what each source writes for a field it has
SourceTag(s) ==
    CASE s = "OpenGraph" -> "X" [] s = "SchemaOrg" -> "Y" [] s = "HtmlMeta" -> "Z"
      [] s = "Doi" -> "D" [] s = "Zotero" -> "C"
SourceYear(s) ==
    CASE s = "OpenGraph" -> 2021 [] s = "SchemaOrg" -> 2022 [] s = "HtmlMeta" -> 2023
      [] s = "Doi" -> 2024 [] s = "Zotero" -> 2025

\* the Attribute a source yields for a field: the variant of the field
\* (Authors for Author) with a payload that identifies the source
SourceAttribute(s, t) ==
    CASE t = "Author" -> Attr("Authors", <<SourceTag(s)>>)
      [] t \in {"Date", "ArchiveDate"} ->
            Attr(t, [variant |-> "Year", year |-> SourceYear(s), month |-> 0, day |-> 0])
      [] OTHER -> Attr(t, SourceTag(s))

\* A ParseInfo in which source s yields exactly the fields of has[s]
PageOf(url, has) ==
    [url  |-> url,
     meta |-> [s \in PageSources |->
                 [t \in AttributeType |->
                    IF t \in has[s] THEN Some(SourceAttribute(s, t)) ELSE None]],
     zotero_result |->
        IF has["Zotero"] = {} THEN None
        ELSE Some([t \in AttributeType |->
                    IF t \in has["Zotero"] THEN Some(SourceAttribute("Zotero", t))
                    ELSE None])]

\* the priority lists of at most n sources
RECURSIVE PriorityLists(_)
PriorityLists(n) ==
    IF n = 0 THEN {<<>>}
    ELSE PriorityLists(n - 1)
         \cup {Append(p, s) : p \in {q \in PriorityLists(n - 1) : Len(q) = n - 1},
                              s \in MetadataType}

TranslationOptions_default ==
    [provider |-> "DeepL", source |-> None, target |-> None,
     deepl_key |-> None, google_key |-> None]

\* the translation options tried: none, DeepL with and without key, Google
TranslationChoices ==
    {TranslationOptions_default,
     [TranslationOptions_default EXCEPT !.target = Some("EN"), !.deepl_key = Some("k")],
     [TranslationOptions_default EXCEPT !.target = Some("EN")],
     [TranslationOptions_default EXCEPT !.provider = "Google",
                                        !.target = Some("EN"), !.google_key = Some("k")]}

GenerationOptions(config, translation, include, perform, ai) ==
    [attribute_config    |-> config,
     translation_options |-> translation,
     archive_options     |-> [include_archived |-> include, perform_archival |-> perform],
     ai_options          |-> [enabled |-> ai]]

NoAttributes == [t \in AttributeType |-> None]
NoLocals == CollectLocals(NoAttributes, [url |-> None])

----------------------------------------------------------------------------
(* create_reference, step by step *)

builderVars == <<builder, prev, last_op>>

\* line 260-269: resolve every field, read the locals
Initialize ==
    /\ pc = "start"
    /\ attributes' = AttributeCollection_initialize(options.attribute_config, parse_info)
    /\ ref' = CollectLocals(attributes', parse_info)
    /\ pc' = "ai"
    /\ UNCHANGED <<parse_info, options, multi, wayback, calls, ai_seen, fetched, builderVars>>

\* lines 281-342 when no AI call is made
AiSkipped ==
    /\ pc = "ai"
    /\ ~AiCallIssued(ref, parse_info, options)
    /\ pc' = "translate"
    /\ UNCHANGED <<parse_info, options, attributes, multi, ref, wayback, calls,
                   ai_seen, fetched, builderVars>>

\* lines 292-333: the AI call and the overlay of its answer
AiExtract ==
    /\ pc = "ai"
    /\ AiCallIssued(ref, parse_info, options)
    /\ \E answer \in AiOutcomes :
          /\ calls' = Append(calls, Call("ai", Outcome(answer)))
          /\ ai_seen' = Some(answer)
          /\ ref' = IF answer.ok THEN AiOverlay(ref, Unwrap(answer.val)) ELSE ref
    /\ pc' = "translate"
    /\ UNCHANGED <<parse_info, options, attributes, multi, wayback, fetched,
                   builderVars>>

\* line 346 when translate_title fails before reaching the service
TranslateNoCall ==
    /\ pc = "translate"
    /\ ~TranslationCallIssued(ref.title, options.translation_options)
    /\ ref' = [ref EXCEPT !.translated_title = None]
    /\ pc' = "archive"
    /\ UNCHANGED <<parse_info, options, attributes, multi, wayback, calls,
                   ai_seen, fetched, builderVars>>

\* line 346: the translation call
TranslateCall ==
    /\ pc = "translate"
    /\ TranslationCallIssued(ref.title, options.translation_options)
    /\ \E answer \in TranslationOutcomes :
          /\ calls' = Append(calls, Call("translate", Outcome(answer)))
          /\ ref' = [ref EXCEPT !.translated_title =
                        TranslatedTitle(options.translation_options, answer)]
    /\ pc' = "archive"
    /\ UNCHANGED <<parse_info, options, attributes, multi, wayback, ai_seen,
                   fetched, builderVars>>

----------------------------------------------------------------------------
(* fetch_archive_info, step by step *)

IsQuery(c) == c.op = "query"
IsSave(c) == c.op = "save"
IsArchiveCall(c) == c.op \in {"query", "save"}

\* fetch_archive_info entered whatever include_archived says
ArchiveEnteredAlways(url, aopts) == IsSome(url) /\ Unwrap(url).type = "Url"

\* whether fetch_archive_info goes on to the availability query (552, 557)
ArchiveEntered(url, aopts) ==
    aopts.include_archived /\ IsSome(url) /\ Unwrap(url).type = "Url"

\* where the match of lines 562-569 goes after the first query
AfterFirstQueryAlwaysSave(snapshot, aopts) ==
    IF IsSome(snapshot) THEN "snapshot" ELSE "save"

AfterFirstQuery(snapshot, aopts) ==
    IF IsSome(snapshot) THEN "snapshot"
    ELSE IF aopts.perform_archival THEN "save" ELSE "snapshot"

\* the fallback retried while it finds nothing, instead of returned as it is
AfterFallbackQueryRetrying(snapshot, queries) ==
    IF IsNone(snapshot) /\ queries < 3 THEN "retry" ELSE "snapshot"

\* line 608: the fallback query's result is save_to_wayback's result
AfterFallbackQuery(snapshot, queries) == "snapshot"

\* lines 552-554 and 583: archiving not requested, or no url
ArchiveSkipped ==
    /\ pc = "archive"
    /\ ~ArchiveEntered(ref.url, options.archive_options)
    /\ ref' = [ref EXCEPT !.archive_url = None, !.archive_date = None]
    /\ pc' = "build"
    /\ UNCHANGED <<parse_info, options, attributes, multi, wayback, calls,
                   ai_seen, fetched, builderVars>>

\* lines 557-559: url_str bound to the url given, and the first
\* availability query on it; fetched holds url_str
ArchiveQuery ==
    /\ pc = "archive"
    /\ ArchiveEntered(ref.url, options.archive_options)
    /\ fetched' = Some(Unwrap(ref.url).val)
    /\ \E answer \in QueryOutcomes :
          /\ calls' = Append(calls, Call("query", Outcome(answer)))
          /\ wayback' = ResultOk(answer)
          /\ pc' = AfterFirstQuery(wayback', options.archive_options)
    /\ UNCHANGED <<parse_info, options, attributes, multi, ref, ai_seen, builderVars>>

\* save_to_wayback up to its fallback (lines 590-604)
ArchiveSave ==
    /\ pc = "save"
    /\ \E answer \in RedirectOutcomes :
          /\ calls' = Append(calls, Call("save", Outcome(answer)))
          /\ IF ~answer.ok
             THEN wayback' = None /\ pc' = "snapshot"
             ELSE LET location == Unwrap(answer.val)
                      timestamp == parse_wayback_location(location)
                  IN  IF IsSome(timestamp)
                      THEN /\ wayback' = Some(WaybackSnapshot(location, Unwrap(timestamp)))
                           /\ pc' = "snapshot"
                      ELSE wayback' = None /\ pc' = "retry"
    /\ UNCHANGED <<parse_info, options, attributes, multi, ref, ai_seen, fetched, builderVars>>

\* the fallback of save_to_wayback (lines 606-608): sleep, query again
ArchiveRetry ==
    /\ pc = "retry"
    /\ \E answer \in QueryOutcomes :
          /\ calls' = Append(calls, Call("query", Outcome(answer)))
          /\ wayback' = ResultOk(answer)
    /\ pc' = AfterFallbackQuery(wayback', Len(SelectSeq(calls', IsQuery)))
    /\ UNCHANGED <<parse_info, options, attributes, multi, ref, ai_seen, fetched, builderVars>>

\* the two attributes with the unwrap replaced by .ok(): the url is reported
\* also when the timestamp names no date-time
ArchiveAttributes_date_optional ==
    /\ pc = "snapshot"
    /\ IF IsNone(wayback)
       THEN ref' = [ref EXCEPT !.archive_url = None, !.archive_date = None]
       ELSE LET snapshot == Unwrap(wayback)
                parsed == parse_wayback_timestamp(snapshot.timestamp)
            IN  ref' = [ref EXCEPT
                          !.archive_url = Some(Attr("ArchiveUrl", snapshot.url)),
                          !.archive_date =
                              IF IsSome(parsed)
                              THEN Some(Attr("ArchiveDate",
                                             [variant |-> "DateTime"] @@ Unwrap(parsed)))
                              ELSE None]
    /\ pc' = "build"
    /\ UNCHANGED <<parse_info, options, attributes, multi, wayback, calls, ai_seen,
                   fetched, builderVars>>

\* lines 571-580: the snapshot becomes the two attributes; the unwrap of
\* parse_wayback_timestamp panics on a timestamp that names no date-time
ArchiveAttributes ==
    /\ pc = "snapshot"
    /\ IF IsNone(wayback)
       THEN /\ ref' = [ref EXCEPT !.archive_url = None, !.archive_date = None]
            /\ pc' = "build"
       ELSE LET snapshot == Unwrap(wayback)
                parsed == parse_wayback_timestamp(snapshot.timestamp)
            IN  IF IsSome(parsed)
                THEN /\ ref' = [ref EXCEPT
                                  !.archive_url = Some(Attr("ArchiveUrl", snapshot.url)),
                                  !.archive_date =
                                      Some(Attr("ArchiveDate",
                                                [variant |-> "DateTime"]
                                                    @@ Unwrap(parsed)))]
                     /\ pc' = "build"
                ELSE ref' = ref /\ pc' = "panic"
    /\ UNCHANGED <<parse_info, options, attributes, multi, wayback, calls, ai_seen,
                   fetched, builderVars>>

\* lines 351-364: the Reference is returned
BuildReference ==
    /\ pc = "build"
    /\ pc' = "done"
    /\ UNCHANGED <<parse_info, options, attributes, multi, ref, wayback, calls,
                   ai_seen, fetched, builderVars>>

\* A request: a page on which OpenGraph has some of the fields, the default
\* configuration, and every combination of the options.
Init ==
    /\ pc = "start"
    /\ \E url \in {None, Some(UserUrl)},
          og \in NearExtremes(AiFields \cup {"Url"}) :
          parse_info = PageOf(url, [s \in AllSources |->
                                       IF s = "OpenGraph" THEN og ELSE {}])
    /\ \E translation \in TranslationChoices, include \in BOOLEAN,
          perform \in BOOLEAN, ai \in BOOLEAN :
          options = GenerationOptions(AttributeConfig_default, translation,
                                      include, perform, ai)
    /\ attributes = NoAttributes
    /\ multi = <<>>
    /\ ref = NoLocals
    /\ wayback = None
    /\ calls = <<>>
    /\ ai_seen = None
    /\ fetched = None
    /\ builder = <<>> /\ prev = <<>> /\ last_op = <<>>

Next ==
    \/ Initialize
    \/ AiSkipped
    \/ AiExtract
    \/ TranslateNoCall
    \/ TranslateCall
    \/ ArchiveSkipped
    \/ ArchiveQuery
    \/ ArchiveSave
    \/ ArchiveRetry
    \/ ArchiveAttributes
    \/ BuildReference

Spec == Init /\ [][Next]_vars

----------------------------------------------------------------------------
(* The resolver on its own: AttributeCollection::initialize and            *)
(* MultiSourceAttributeCollection::parse_all on the same ParseInfo         *)

\* the AttributeConfig field that holds a type's priority list
ConfigFieldOf(t) ==
    CASE t = "Title" -> "title" [] t = "Author" -> "authors" [] t = "Date" -> "date"
      [] t = "ArchiveDate" -> "archive_date" [] t = "Language" -> "language"
      [] t = "Locale" -> "locale" [] t = "Site" -> "site" [] t = "Url" -> "url"
      [] t = "ArchiveUrl" -> "archive_url" [] t = "Journal" -> "journal"
      [] t = "Publisher" -> "publisher" [] t = "Institution" -> "institution"
      [] t = "Volume" -> "volume"

\* the configurations tried for a page whose metadata is about field t:
\* the default, and a list set for t alone (for all fields when t is Type,
\* which has no field in AttributeConfig)
ConfigsFor(t) ==
    {AttributeConfig_default}
    \cup {IF t = "Type" THEN AttributeConfig_new(p)
          ELSE [AttributeConfig_default EXCEPT ![ConfigFieldOf(t)] = Some(p)] :
            p \in PriorityLists(MaxPriorityLen)}

Resolve ==
    /\ pc = "resolve"
    /\ attributes' = AttributeCollection_initialize(options.attribute_config, parse_info)
    /\ pc' = "resolved"
    /\ UNCHANGED <<parse_info, options, multi, ref, wayback, calls, ai_seen,
                   fetched, builderVars>>

ParseAll ==
    /\ pc \in {"resolved", "parse_all"}
    /\ multi' = MultiSource_parse_all(parse_info)
    /\ pc' = "collected"
    /\ UNCHANGED <<parse_info, options, attributes, ref, wayback, calls, ai_seen,
                   fetched, builderVars>>

\* A page on which any set of sources has a value for one field, resolved
\* under every configuration of that field.
InitResolve ==
    /\ pc = "resolve"
    /\ \E t \in AttributeType, having \in SUBSET AllSources :
          /\ parse_info = PageOf(Some(UserUrl),
                                 [s \in AllSources |-> IF s \in having THEN {t} ELSE {}])
          /\ \E config \in ConfigsFor(t) :
                options = GenerationOptions(config, TranslationOptions_default,
                                            TRUE, TRUE, FALSE)
    /\ attributes = NoAttributes
    /\ multi = <<>>
    /\ ref = NoLocals
    /\ wayback = None
    /\ calls = <<>>
    /\ ai_seen = None
    /\ fetched = None
    /\ builder = <<>> /\ prev = <<>> /\ last_op = <<>>

NextResolve == Resolve \/ ParseAll

SpecResolve == InitResolve /\ [][NextResolve]_vars

----------------------------------------------------------------------------
(* C1 *)

\* what source s yields for field t on the page of the request; the Ai
\* entry of a priority list yields nothing
Yields(s, t) == IF s = "Ai" THEN None ELSE ParseBySource(parse_info, s, t)

\* the value of the first source of list p that yields one for t
FirstYield(p, t) ==
    LET hits == {i \in 1..Len(p) : IsSome(Yields(p[i], t))}
    IN  IF hits = {} THEN None
        ELSE Yields(p[CHOOSE i \in hits : \A j \in hits : i <= j], t)

\* the priority list the caller configured for field t, if any
Configured(t) ==
    IF t = "Type" THEN None ELSE options.attribute_config[ConfigFieldOf(t)]

\* C1: once the collection is built, every field with a configured priority
\* list holds the value of the first source of that list that yields one,
\* and is unresolved exactly when no source of the list yields one.
C1_FirstMatchWins ==
    pc \in {"resolved", "collected"} =>
        \A t \in AttributeType :
            IsSome(Configured(t)) =>
                attributes[t] = FirstYield(Unwrap(Configured(t)), t)

\* C1 witness: OpenGraph has title X, Schema.org has title Y, the list is
\* [SchemaOrg, OpenGraph] and the resolved title is Y.
C1_Witness ==
    /\ pc = "resolved"
    /\ Configured("Title") = Some(<<"SchemaOrg", "OpenGraph">>)
    /\ Yields("OpenGraph", "Title") = Some(Attr("Title", "X"))
    /\ Yields("SchemaOrg", "Title") = Some(Attr("Title", "Y"))
    /\ attributes["Title"] = Some(Attr("Title", "Y"))

----------------------------------------------------------------------------
(* C2 *)

\* the local of create_reference that holds field t
Local(r, t) ==
    CASE t = "Title" -> r.title [] t = "Author" -> r.author [] t = "Date" -> r.date
      [] t = "Site" -> r.site [] t = "Publisher" -> r.publisher
      [] t = "Language" -> r.language [] t = "Url" -> r.url

AfterAi == {"translate", "archive", "save", "retry", "snapshot", "build", "done", "panic"}

\* C2: after the AI step, each of title, author, date, site, publisher and
\* language that the priority resolution resolved still holds the resolved
\* value, whatever the AI call returned; a local differs from the resolved
\* value only for a field that was unresolved.
C2_AiNeverOverwrites ==
    pc \in AfterAi =>
        \A t \in AiFields :
            /\ IsSome(attributes[t]) => Local(ref, t) = attributes[t]
            /\ Local(ref, t) # attributes[t] => IsNone(attributes[t])

\* C2 witness: the AI answered with a title and an author; the title was
\* resolved and is kept, the author was unresolved and is the AI's.
C2_Witness ==
    /\ pc = "done"
    /\ IsSome(ai_seen) /\ Unwrap(ai_seen).ok
    /\ Unwrap(Unwrap(ai_seen).val).title = Some("AI title")
    /\ attributes["Title"] = Some(Attr("Title", "X"))
    /\ ref.title = Some(Attr("Title", "X"))
    /\ IsNone(attributes["Author"])
    /\ ref.author = Some(Attr("Authors", <<"AI author">>))

----------------------------------------------------------------------------
(* C3 *)

ArchiveCalls == SelectSeq(calls, IsArchiveCall)
Queries == SelectSeq(calls, IsQuery)
Saves == SelectSeq(calls, IsSave)
Returned == pc \in {"build", "done"}
NoArchive == IsNone(ref.archive_url) /\ IsNone(ref.archive_date)

\* C3: when the first availability query yields no snapshot and
\* perform_archival is false, no save request is issued, no second query is
\* made, and the resolver returns with both archive fields None.
C3_NoSnapshotNoCreate ==
    (/\ Queries # <<>> /\ Queries[1].result # "Ok"
     /\ ~options.archive_options.perform_archival)
        => /\ Saves = <<>>
           /\ Len(Queries) = 1
           /\ pc \in {"snapshot", "build", "done"}
           /\ NoArchive

\* C3 witness: a finished request whose only archive call is a query that
\* found no snapshot, with perform_archival false.
C3_Witness ==
    /\ pc = "done"
    /\ ~options.archive_options.perform_archival
    /\ ArchiveCalls = <<Call("query", "DeserializeError")>>
    /\ NoArchive

----------------------------------------------------------------------------
(* C4 *)

\* the archive calls a request may have issued at each position
ArchiveCallShape ==
    LET ops == [i \in 1..Len(ArchiveCalls) |-> ArchiveCalls[i].op]
    IN  CASE pc \in {"start", "ai", "translate", "archive"} -> ops = <<>>
          [] pc = "save"  -> ops = <<"query">>
          [] pc = "retry" -> ops = <<"query", "save">> /\ ArchiveCalls[2].result = "Ok"
          [] OTHER -> ops \in {<<>>, <<"query">>, <<"query", "save">>,
                               <<"query", "save", "query">>}

\* C4: a request issues at most two availability queries and at most one
\* save; a second query is made only after a save whose redirect location
\* held no 14-digit timestamp, its answer (snapshot or none) is what the
\* resolver goes on with, and no position is revisited, so that every
\* request that keeps stepping ends.
C4_SingleBoundedRetry ==
    /\ Len(Queries) <= 2 /\ Len(Saves) <= 1
    /\ ArchiveCallShape
    /\ Len(Queries) = 2 =>
          /\ pc \in {"snapshot", "build", "done", "panic"}
          /\ ArchiveCalls[2] = Call("save", "Ok")
          /\ IsSome(wayback) <=> ArchiveCalls[3].result = "Ok"
          /\ Returned => (IsSome(ref.archive_url) <=> ArchiveCalls[3].result = "Ok")
    /\ pc \notin {"done", "panic"} => ENABLED Next

\* C4 witness: a save answered with a location without a timestamp, then
\* the one repeated query, which found nothing, and the request finished.
C4_Witness ==
    /\ pc = "done"
    /\ ArchiveCalls = <<Call("query", "DeserializeError"), Call("save", "Ok"),
                        Call("query", "DeserializeError")>>
    /\ NoArchive

----------------------------------------------------------------------------
(* C5 *)

\* C5: if the first availability query fails with a transport error, the
\* resolver returns no archive url and no archive date, whatever
\* perform_archival is.
C5_TransportErrorNoArchive ==
    (/\ Queries # <<>> /\ Queries[1].result = "CurlError"
     /\ Returned)
        => NoArchive

----------------------------------------------------------------------------
(* C6 *)

IsCallOf(op, result) == \E i \in 1..Len(calls) : calls[i] = Call(op, result)

\* C6: create_reference never aborts; after a failed translation the
\* translated title is absent, after a failed AI call the six fields are as
\* resolved, and after archive calls that found no snapshot both archive
\* fields are absent.
C6_NonCriticalNeverAborts ==
    /\ pc # "panic"
    /\ (Returned /\ IsCallOf("translate", "TranslationError"))
          => IsNone(ref.translated_title)
    /\ (pc \in AfterAi /\ IsCallOf("ai", "AiExtractionError"))
          => \A t \in AiFields : Local(ref, t) = attributes[t]
    /\ (Returned /\ ArchiveCalls # <<>>
          /\ \A i \in 1..Len(ArchiveCalls) : ArchiveCalls[i].result # "Ok")
          => NoArchive

----------------------------------------------------------------------------
(* C7 *)

\* C7: when include_archived is false or the request has no url, no
\* availability query and no save request is issued and both archive fields
\* stay None, whatever perform_archival is.
C7_ArchiveOnlyWhenRequested ==
    (pc # "start" /\ (~options.archive_options.include_archived \/ IsNone(ref.url)))
        => /\ ArchiveCalls = <<>>
           /\ pc \notin {"save", "retry", "snapshot", "panic"}
           /\ NoArchive

\* C7 witness: a finished request with a url, include_archived false and
\* perform_archival true, without archive fields.
C7_Witness ==
    /\ pc = "done"
    /\ ~options.archive_options.include_archived
    /\ options.archive_options.perform_archival
    /\ IsSome(ref.url)
    /\ ArchiveCalls = <<>>
    /\ NoArchive

----------------------------------------------------------------------------
(* citation.rs: text *)

\* A String is the sequence of its pieces; Str joins them.
RECURSIVE Str(_)
Str(text) == IF text = <<>> THEN "" ELSE Head(text) \o Str(Tail(text))

Whitespace == {" ", "\n", "\t"}

\* str::split_whitespace: the maximal runs of non-whitespace pieces
RECURSIVE SplitWhitespace(_)
SplitWhitespace(text) ==
    IF text = <<>> THEN <<>>
    ELSE IF Head(text) \in Whitespace THEN SplitWhitespace(Tail(text))
    ELSE LET rest == SplitWhitespace(Tail(text))
         IN  IF Len(text) > 1 /\ text[2] \notin Whitespace
             THEN <<<<Head(text)>> \o Head(rest)>> \o Tail(rest)
             ELSE <<<<Head(text)>>>> \o rest

\* [T]::join(sep) on texts
RECURSIVE Join(_, _)
Join(parts, sep) ==
    IF parts = <<>> THEN <<>>
    ELSE IF Len(parts) = 1 THEN parts[1]
    ELSE parts[1] \o sep \o Join(Tail(parts), sep)

\* Author::Person / Organization / Generic
Author(kind, name) == [kind |-> kind, name |-> name]

----------------------------------------------------------------------------
(* citation.rs: WikiCitation *)

\* stringify_author (lines 26-59); count is the Option<i32> index
Wiki_stringify_author(author, count) ==
    LET i == IF IsSome(count) THEN <<ToString(Unwrap(count))>> ELSE <<>>
        parts == SplitWhitespace(author.name)
        default == <<"| author">> \o i \o <<" = ">> \o Join(parts, <<" ">>)
        split == <<"| last">> \o i \o <<" = ">> \o parts[Len(parts)]
                    \o <<"\n", "| first">> \o i \o <<" = ">>
                    \o Join(SubSeq(parts, 1, Len(parts) - 1), <<" ">>)
    IN  CASE author.kind = "Person" -> IF Len(parts) >= 1 THEN split ELSE default
          [] author.kind = "Organization" -> default
          [] author.kind = "Generic" -> IF Len(parts) >= 2 THEN split ELSE default

\* handle_authors numbering every author, a single one too
Wiki_handle_authors_always_indexed(authors) ==
    Join([k \in 1..Len(authors) |-> Wiki_stringify_author(authors[k], Some(k))],
         <<" ">>)

\* handle_authors (lines 61-67): index only when there are several
Wiki_handle_authors(authors) ==
    Join([k \in 1..Len(authors) |->
            Wiki_stringify_author(authors[k],
                                  IF Len(authors) > 1 THEN Some(k) ELSE None)],
         <<" ">>)

Pad2(n) == IF n < 10 THEN <<"0", ToString(n)>> ELSE <<ToString(n)>>
Pad4(n) ==
    IF n < 10 THEN <<"0", "0", "0", ToString(n)>>
    ELSE IF n < 100 THEN <<"0", "0", ToString(n)>>
    ELSE IF n < 1000 THEN <<"0", ToString(n)>>
    ELSE <<ToString(n)>>

\* a year-month-day format without zero padding
FormatYmd_unpadded(d) ==
    <<ToString(d.year), "-", ToString(d.month), "-", ToString(d.day)>>

\* chrono's format("%Y-%m-%d")
FormatYmd(d) == Pad4(d.year) \o <<"-">> \o Pad2(d.month) \o <<"-">> \o Pad2(d.day)

\* WikiCitation::handle_date
Wiki_handle_date(date) ==
    CASE date.variant \in {"DateTime", "YearMonthDay"} -> FormatYmd(date)
      [] date.variant = "YearMonth" -> <<ToString(date.year), "-", ToString(date.month)>>
      [] date.variant = "Year" -> <<ToString(date.year)>>

\* the line WikiCitation::add writes for an attribute, None if unsupported
Wiki_line(attribute) ==
    LET t == attribute.type
        val == attribute.val
    IN  CASE t = "Title"           -> Some(<<"| title = ">> \o val)
          [] t = "TranslatedTitle" -> Some(<<"| trans-title = ">> \o val.text)
          [] t = "Authors"         -> Some(Wiki_handle_authors(val))
          [] t = "Date"            -> Some(<<"| date = ">> \o Wiki_handle_date(val))
          [] t = "ArchiveDate"     -> Some(<<"| archive-date = ">> \o Wiki_handle_date(val))
          [] t = "Language"        -> Some(<<"| language = ">> \o val)
          [] t = "Site"            -> Some(<<"| site = ">> \o val)
          [] t = "Url"             -> Some(<<"| url = ">> \o val)
          [] t = "ArchiveUrl"      -> Some(<<"| archive-url = ">> \o val)
          [] t = "Journal"         -> Some(<<"| journal = ">> \o val)
          [] t = "Publisher"       -> Some(<<"| publisher = ">> \o val)
          [] OTHER                 -> None

\* WikiCitation::new
Wiki_new == [formatted_string |-> <<>>]

\* WikiCitation::add with a line (the variant's Display) for every variant
Wiki_add_every_variant(self, attribute) ==
    [formatted_string |->
        self.formatted_string \o <<"\n">>
            \o OrElse(Wiki_line(attribute), Some(<<"| ", attribute.type, " = ">>))[1]]

\* WikiCitation::add
Wiki_add(self, attribute) ==
    LET result_option == Wiki_line(attribute)
    IN  IF IsSome(result_option)
        THEN [formatted_string |->
                self.formatted_string \o <<"\n">> \o Unwrap(result_option)]
        ELSE self

\* WikiCitation::try_add that adds nothing at all
Wiki_try_add_dropping(self, attribute_option) == self

\* WikiCitation::try_add
Wiki_try_add(self, attribute_option) ==
    IF IsSome(attribute_option) THEN Wiki_add(self, Unwrap(attribute_option)) ELSE self

\* WikiCitation::build
Wiki_build(self) == <<"{{cite web">> \o self.formatted_string \o <<"\n", "}}">>

----------------------------------------------------------------------------
(* citation.rs: BibTeXCitation *)

\* stringify_author writing the given names before the family name
BibTeX_stringify_author_given_first(author) ==
    LET parts == SplitWhitespace(author.name)
    IN  IF author.kind = "Organization" \/ Len(parts) = 0
        THEN <<"{">> \o Join(parts, <<" ">>) \o <<"}">>
        ELSE Join(parts, <<" ">>)

\* stringify_author (lines 135-165)
BibTeX_stringify_author(author) ==
    LET parts == SplitWhitespace(author.name)
        default == <<"{">> \o Join(parts, <<" ">>) \o <<"}">>
        split == parts[Len(parts)] \o <<", ">>
                    \o Join(SubSeq(parts, 1, Len(parts) - 1), <<" ">>)
    IN  CASE author.kind = "Person" -> IF Len(parts) >= 1 THEN split ELSE default
          [] author.kind = "Organization" -> default
          [] author.kind = "Generic" -> IF Len(parts) >= 2 THEN split ELSE default

\* BibTeXCitation::handle_authors
BibTeX_handle_authors(authors) ==
    <<"author = \"">>
        \o Join([k \in 1..Len(authors) |-> BibTeX_stringify_author(authors[k])],
                <<" and ">>)
        \o <<"\"">>

\* BibTeXCitation::handle_date_value
BibTeX_handle_date_value(date) ==
    CASE date.variant \in {"DateTime", "YearMonthDay"} -> FormatYmd(date)
      [] date.variant = "YearMonth" -> <<ToString(date.year), "-">> \o Pad2(date.month)
      [] date.variant = "Year" -> <<ToString(date.year)>>

\* BibTeXCitation::handle_date
BibTeX_handle_date(date) ==
    CASE date.variant \in {"DateTime", "YearMonthDay"} ->
            <<"date = \"">> \o FormatYmd(date) \o <<"\"">>
      [] date.variant = "YearMonth" ->
            <<"year = \"", ToString(date.year), "\",", "\n",
              "month = \"", ToString(date.month), "\"">>
      [] date.variant = "Year" -> <<"year = \"", ToString(date.year), "\"">>

\* the line BibTeXCitation::add writes for an attribute, None if unsupported
BibTeX_line(attribute) ==
    LET t == attribute.type
        val == attribute.val
    IN  CASE t = "Title"       -> Some(<<"title = \"">> \o val \o <<"\"">>)
          [] t = "TranslatedTitle" ->
                Some(<<"note = \"Translated title: ">> \o val.text \o <<"\"">>)
          [] t = "Authors"     -> Some(BibTeX_handle_authors(val))
          [] t = "Date"        -> Some(BibTeX_handle_date(val))
          [] t = "Url"         -> Some(<<"url = \\url{">> \o val \o <<"}">>)
          [] t = "Site"        -> Some(<<"howpublished = \"">> \o val \o <<"\"">>)
          [] t = "Publisher"   -> Some(<<"publisher = \"">> \o val \o <<"\"">>)
          [] t = "Language"    -> Some(<<"language = \"">> \o val \o <<"\"">>)
          [] t = "Journal"     -> Some(<<"journal = \"">> \o val \o <<"\"">>)
          [] t = "ArchiveUrl"  -> Some(<<"archiveurl = \\url{">> \o val \o <<"}">>)
          [] t = "ArchiveDate" ->
                Some(<<"archivedate = \"">> \o BibTeX_handle_date_value(val) \o <<"\"">>)
          [] OTHER             -> None

\* BibTeXCitation::new
BibTeX_new == [formatted_string |-> <<>>]

\* BibTeXCitation::add
BibTeX_add(self, attribute) ==
    LET result_option == BibTeX_line(attribute)
    IN  IF IsSome(result_option)
        THEN [formatted_string |->
                self.formatted_string \o Unwrap(result_option) \o <<",", "\n">>]
        ELSE self

\* BibTeXCitation::try_add
BibTeX_try_add(self, attribute_option) ==
    IF IsSome(attribute_option) THEN BibTeX_add(self, Unwrap(attribute_option)) ELSE self

\* BibTeXCitation::build
BibTeX_build(self) == <<"@misc{ url2ref,", "\n">> \o self.formatted_string \o <<"}">>

----------------------------------------------------------------------------
(* citation.rs: HarvardCitation *)

\* name.chars().next() of the words the model uses
FirstChar(word) ==
    CASE word[1] = "Jane" -> "J" [] word[1] = "John" -> "J" [] word[1] = "Q" -> "Q"
      [] word[1] = "Smith" -> "S" [] word[1] = "Doe" -> "D"
      [] word[1] = "Madonna" -> "M" [] word[1] = "Reuters" -> "R"
      [] word[1] = "Ltd" -> "L" [] word[1] = "Staff" -> "S"

\* get_initials: "J." for every given name, joined without separator
RECURSIVE Harvard_get_initials(_)
Harvard_get_initials(first_names) ==
    IF first_names = <<>> THEN <<>>
    ELSE <<FirstChar(Head(first_names)), ".">> \o Harvard_get_initials(Tail(first_names))

\* format_single_author (lines 258-281)
Harvard_format_single_author(author) ==
    LET parts == SplitWhitespace(author.name)
    IN  IF author.kind = "Organization" THEN author.name
        ELSE IF Len(parts) >= 2
             THEN parts[Len(parts)] \o <<", ">>
                    \o Harvard_get_initials(
                         SplitWhitespace(Join(SubSeq(parts, 1, Len(parts) - 1), <<" ">>)))
        ELSE IF Len(parts) = 1 THEN parts[1]
        ELSE author.name

\* format_authors that abbreviates every list of two or more to "et al."
Harvard_format_authors_et_al_from_two(authors) ==
    CASE Len(authors) = 0 -> <<>>
      [] Len(authors) = 1 -> Harvard_format_single_author(authors[1])
      [] OTHER -> Harvard_format_single_author(authors[1]) \o <<" et al.">>

\* HarvardCitation::format_authors
Harvard_format_authors(authors) ==
    CASE Len(authors) = 0 -> <<>>
      [] Len(authors) = 1 -> Harvard_format_single_author(authors[1])
      [] Len(authors) = 2 ->
            Harvard_format_single_author(authors[1]) \o <<" and ">>
                \o Harvard_format_single_author(authors[2])
      [] OTHER -> Harvard_format_single_author(authors[1]) \o <<" et al.">>

\* HarvardCitation::extract_year
Harvard_extract_year(date) ==
    IF date.variant \in {"DateTime", "YearMonthDay"} THEN Pad4(date.year)
    ELSE <<ToString(date.year)>>

\* month_name
month_name(month) ==
    CASE month = 1 -> "January" [] month = 2 -> "February" [] month = 3 -> "March"
      [] month = 4 -> "April" [] month = 5 -> "May" [] month = 6 -> "June"
      [] month = 7 -> "July" [] month = 8 -> "August" [] month = 9 -> "September"
      [] month = 10 -> "October" [] month = 11 -> "November"
      [] month = 12 -> "December" [] OTHER -> "Unknown"

\* HarvardCitation::format_access_date ("%-d %B %Y")
Harvard_format_access_date(date) ==
    CASE date.variant \in {"DateTime", "YearMonthDay"} ->
            <<ToString(date.day), " ", month_name(date.month), " ">> \o Pad4(date.year)
      [] date.variant = "YearMonth" ->
            <<month_name(date.month), " ", ToString(date.year)>>
      [] date.variant = "Year" -> <<ToString(date.year)>>

\* HarvardCitation::new
Harvard_new ==
    [authors |-> None, year |-> None, title |-> None, site |-> None,
     publisher |-> None, url |-> None, access_date |-> None]

\* an add that keeps site and publisher in one slot, the last one added
Harvard_add_one_source_slot(self, attribute) ==
    LET t == attribute.type
        val == attribute.val
    IN  CASE t = "Title"       -> [self EXCEPT !.title = Some(val)]
          [] t = "Authors"     -> [self EXCEPT !.authors = Some(Harvard_format_authors(val))]
          [] t = "Date"        -> [self EXCEPT !.year = Some(Harvard_extract_year(val))]
          [] t = "Site"        -> [self EXCEPT !.site = Some(val)]
          [] t = "Publisher"   -> [self EXCEPT !.site = Some(val)]
          [] t = "Url"         -> [self EXCEPT !.url = Some(val)]
          [] t = "ArchiveDate" ->
                [self EXCEPT !.access_date = Some(Harvard_format_access_date(val))]
          [] OTHER             -> self

\* HarvardCitation::add
Harvard_add(self, attribute) ==
    LET t == attribute.type
        val == attribute.val
    IN  CASE t = "Title"       -> [self EXCEPT !.title = Some(val)]
          [] t = "Authors"     -> [self EXCEPT !.authors = Some(Harvard_format_authors(val))]
          [] t = "Date"        -> [self EXCEPT !.year = Some(Harvard_extract_year(val))]
          [] t = "Site"        -> [self EXCEPT !.site = Some(val)]
          [] t = "Publisher"   -> [self EXCEPT !.publisher = Some(val)]
          [] t = "Url"         -> [self EXCEPT !.url = Some(val)]
          [] t = "ArchiveDate" ->
                [self EXCEPT !.access_date = Some(Harvard_format_access_date(val))]
          [] OTHER             -> self

\* HarvardCitation::try_add
Harvard_try_add(self, attribute_option) ==
    IF IsSome(attribute_option) THEN Harvard_add(self, Unwrap(attribute_option)) ELSE self

\* HarvardCitation::build
Harvard_build(self) ==
    LET head ==
            CASE IsSome(self.authors) /\ IsSome(self.year) ->
                    Unwrap(self.authors) \o <<" (">> \o Unwrap(self.year) \o <<")">>
              [] IsSome(self.authors) /\ IsNone(self.year) ->
                    Unwrap(self.authors) \o <<" (n.d.)">>
              [] IsNone(self.authors) /\ IsSome(self.year) ->
                    <<"(">> \o Unwrap(self.year) \o <<")">>
              [] OTHER -> <<"(n.d.)">>
        title == IF IsSome(self.title)
                 THEN <<" '">> \o Unwrap(self.title) \o <<"'">> ELSE <<>>
        source == OrElse(self.site, self.publisher)
        src == IF IsSome(source) THEN <<", ">> \o Unwrap(source) ELSE <<>>
        url == IF IsSome(self.url)
               THEN <<" Available at: ">> \o Unwrap(self.url) ELSE <<>>
        date == IF IsSome(self.access_date)
                THEN <<" (Accessed: ">> \o Unwrap(self.access_date) \o <<").">> ELSE <<>>
    IN  head \o title \o src \o <<".">> \o url \o date

----------------------------------------------------------------------------
(* citation.rs: the CitationBuilder trait, driven call by call *)

SampleDates(t) ==
    {Attr(t, [variant |-> "DateTime", year |-> 2026, month |-> 1, day |-> 24]),
     Attr(t, [variant |-> "YearMonthDay", year |-> 987, month |-> 11, day |-> 5]),
     Attr(t, [variant |-> "YearMonth", year |-> 2024, month |-> 3, day |-> 0]),
     Attr(t, [variant |-> "Year", year |-> 2023, month |-> 0, day |-> 0])}

JaneSmith == Author("Person", <<"Jane", " ", "Smith">>)
Reuters == Author("Organization", <<"Reuters", " ", " ", "Ltd">>)
Staff == Author("Generic", <<"Staff">>)

\* one Attribute or more of every variant of the enum
SampleAttributes ==
    {Attr("Title", <<"Test", " ", "title">>),
     Attr("Title", <<"Breaking", "\n", " ", " ", "news">>),
     Attr("TranslatedTitle", [text |-> <<"Titel">>, language |-> <<"DE">>]),
     Attr("Authors", <<>>),
     Attr("Authors", <<JaneSmith>>),
     Attr("Authors", <<Reuters, JaneSmith>>),
     Attr("Authors", <<JaneSmith, Staff, Reuters>>),
     Attr("Language", <<"en">>),
     Attr("Locale", <<"en_US">>),
     Attr("Site", <<"Example">>),
     Attr("Url", <<"https://", Host, "/", Page>>),
     Attr("ArchiveUrl", ArchivedUrl(TsValid)),
     Attr("Type", <<"article">>),
     Attr("Journal", <<"Nature">>),
     Attr("Publisher", <<"ACME">>),
     Attr("Institution", <<"MIT">>),
     Attr("Volume", <<"12">>)}
    \cup SampleDates("Date") \cup SampleDates("ArchiveDate")

\* the three builders, given the same calls
Builders_new == [wiki |-> Wiki_new, bibtex |-> BibTeX_new, harvard |-> Harvard_new]

Op(op, arg, out) == [op |-> op, arg |-> arg, out |-> out]

\* builder.add(&attribute)
Add ==
    /\ pc = "cite"
    /\ Len(calls) < MaxOps
    /\ \E attribute \in SampleAttributes :
          /\ builder' = [wiki    |-> Wiki_add(builder.wiki, attribute),
                         bibtex  |-> BibTeX_add(builder.bibtex, attribute),
                         harvard |-> Harvard_add(builder.harvard, attribute)]
          /\ last_op' = Op("add", Some(attribute), None)
          /\ calls' = Append(calls, Call("add", Some(attribute)))
    /\ prev' = builder
    /\ UNCHANGED <<pc, parse_info, options, attributes, multi, ref, wayback, ai_seen, fetched>>

\* builder.try_add(&attribute_option)
TryAdd ==
    /\ pc = "cite"
    /\ Len(calls) < MaxOps
    /\ \E attribute_option \in {None} \cup {Some(a) : a \in SampleAttributes} :
          /\ builder' = [wiki    |-> Wiki_try_add(builder.wiki, attribute_option),
                         bibtex  |-> BibTeX_try_add(builder.bibtex, attribute_option),
                         harvard |-> Harvard_try_add(builder.harvard, attribute_option)]
          /\ last_op' = Op("try_add", attribute_option, None)
          /\ calls' = Append(calls, Call("try_add", attribute_option))
    /\ prev' = builder
    /\ UNCHANGED <<pc, parse_info, options, attributes, multi, ref, wayback, ai_seen, fetched>>

\* builder.build()
Build ==
    /\ pc \in {"cite", "authored", "dated", "harvard"}
    /\ pc' = "built"
    /\ last_op' = Op("build", None,
                     Some([wiki    |-> Wiki_build(builder.wiki),
                           bibtex  |-> BibTeX_build(builder.bibtex),
                           harvard |-> Harvard_build(builder.harvard)]))
    /\ calls' = Append(calls, Call("build", None))
    /\ prev' = builder
    /\ UNCHANGED <<builder, parse_info, options, attributes, multi, ref, wayback,
                   ai_seen, fetched>>

InitCite ==
    /\ pc = "cite"
    /\ parse_info = PageOf(None, [s \in AllSources |-> {}])
    /\ options = GenerationOptions(AttributeConfig_default, TranslationOptions_default,
                                   FALSE, FALSE, FALSE)
    /\ attributes = NoAttributes
    /\ multi = <<>>
    /\ ref = NoLocals
    /\ wayback = None
    /\ calls = <<>>
    /\ ai_seen = None
    /\ fetched = None
    /\ builder = Builders_new
    /\ prev = Builders_new
    /\ last_op = Op("new", None, None)

NextCite == Add \/ TryAdd \/ Build

SpecCite == InitCite /\ [][NextCite]_vars

----------------------------------------------------------------------------
(* reference.rs build_citation, for a Reference that has authors only *)

SampleAuthors ==
    {JaneSmith, Reuters, Staff,
     Author("Person", <<"John", " ", "Doe">>),
     Author("Person", <<"Madonna">>),
     Author("Person", <<>>),
     Author("Generic", <<" ", "John", " ", "Q", "\t", "Doe", "\n">>)}

RECURSIVE ListsUpTo(_, _)
ListsUpTo(S, n) ==
    IF n = 0 THEN {<<>>}
    ELSE LET shorter == ListsUpTo(S, n - 1)
         IN  shorter \cup {Append(l, x) : l \in shorter, x \in S}

\* .try_add(author): the other fields of the Reference are None and add nothing
TryAddAuthor ==
    /\ pc = "authors"
    /\ builder' = [wiki    |-> Wiki_try_add(builder.wiki, ref.author),
                   bibtex  |-> BibTeX_try_add(builder.bibtex, ref.author),
                   harvard |-> Harvard_try_add(builder.harvard, ref.author)]
    /\ last_op' = Op("try_add", ref.author, None)
    /\ calls' = Append(calls, Call("try_add", ref.author))
    /\ prev' = builder
    /\ pc' = "authored"
    /\ UNCHANGED <<parse_info, options, attributes, multi, ref, wayback, ai_seen, fetched>>

InitAuthors ==
    /\ pc = "authors"
    /\ parse_info = PageOf(None, [s \in AllSources |-> {}])
    /\ options = GenerationOptions(AttributeConfig_default, TranslationOptions_default,
                                   FALSE, FALSE, FALSE)
    /\ attributes = NoAttributes
    /\ multi = <<>>
    /\ \E authors \in ListsUpTo(SampleAuthors, MaxAuthors) :
          ref = [NoLocals EXCEPT !.author = Some(Attr("Authors", authors))]
    /\ wayback = None
    /\ calls = <<>>
    /\ ai_seen = None
    /\ fetched = None
    /\ builder = Builders_new
    /\ prev = Builders_new
    /\ last_op = Op("new", None, None)

NextAuthors == TryAddAuthor \/ Build

SpecAuthors == InitAuthors /\ [][NextAuthors]_vars

----------------------------------------------------------------------------
(* C8 *)

\* the three builders after add(a) on the builders of b
Added(b, a) ==
    [wiki    |-> Wiki_add(b.wiki, a),
     bibtex  |-> BibTeX_add(b.bibtex, a),
     harvard |-> Harvard_add(b.harvard, a)]

\* the calls made so far are one add or try_add of a Title, then build
OnlyATitleBuilt ==
    /\ pc = "built"
    /\ Len(calls) = 2
    /\ calls[1].op \in {"add", "try_add"}
    /\ IsSome(calls[1].result)
    /\ Unwrap(calls[1].result).type = "Title"

\* C8: on every builder, try_add(None) leaves the builder as it was and
\* try_add(Some(a)) leaves it as add(a) does; a fresh Wiki builder given only
\* a Title T builds exactly "{{cite web\n| title = T\n}}".
C8_TryAddIsAdd ==
    /\ last_op.op = "try_add" =>
          IF IsNone(last_op.arg) THEN builder = prev
          ELSE builder = Added(prev, Unwrap(last_op.arg))
    /\ OnlyATitleBuilt =>
          Str(Unwrap(last_op.out).wiki)
            = "{{cite web\n| title = " \o Str(Unwrap(calls[1].result).val) \o "\n}}"

C8_Witness ==
    /\ OnlyATitleBuilt
    /\ calls[1].op = "try_add"
    /\ Str(Unwrap(last_op.out).wiki) = "{{cite web\n| title = Test title\n}}"

----------------------------------------------------------------------------
(* C9 *)

UnsupportedByAll == {"Locale", "Type", "Institution", "Volume"}
UnsupportedByHarvard ==
    UnsupportedByAll \cup {"TranslatedTitle", "Language", "ArchiveUrl", "Journal"}

\* C9: add of a variant the builder does not render leaves the builder as it
\* was: Locale, Type, Institution and Volume for Wiki and BibTeX, and those
\* and TranslatedTitle, Language, ArchiveUrl and Journal for Harvard.
C9_UnsupportedLeavesUnchanged ==
    last_op.op = "add" =>
        LET t == Unwrap(last_op.arg).type
        IN  /\ t \in UnsupportedByAll =>
                builder.wiki = prev.wiki /\ builder.bibtex = prev.bibtex
            /\ t \in UnsupportedByHarvard => builder.harvard = prev.harvard

C9_Witness ==
    /\ last_op.op = "add"
    /\ Unwrap(last_op.arg).type = "Volume"
    /\ Len(calls) = 2
    /\ prev # Builders_new
    /\ builder = prev

----------------------------------------------------------------------------
(* C10 *)

ParamNames == {"| last", "| first", "| author"}

\* the places of the author parameter names in a Wiki text
ParamPlaces(text) == {k \in 1..Len(text) : text[k] \in ParamNames}

\* the number of the author whose parameter stands at place k: every author
\* opens with "| last" or "| author"
AuthorAt(text, k) ==
    Cardinality({j \in ParamPlaces(text) : j <= k /\ text[j] # "| first"})

\* C10: the Wiki builder writes the parameter names of a single author
\* without an index, and those of the i-th of two or more authors with the
\* index i.
C10_WikiAuthorIndex ==
    pc \in {"authored", "built"} =>
        LET text == builder.wiki.formatted_string
            n == Len(Unwrap(ref.author).val)
        IN  /\ Cardinality({k \in ParamPlaces(text) : text[k] # "| first"}) = n
            /\ \A k \in ParamPlaces(text) :
                  IF n >= 2
                  THEN /\ text[k + 1] = ToString(AuthorAt(text, k))
                       /\ text[k + 2] = " = "
                  ELSE text[k + 1] = " = "

C10_Witness ==
    /\ pc = "authored"
    /\ Unwrap(ref.author).val = <<JaneSmith, Reuters>>
    /\ Str(builder.wiki.formatted_string)
         = "\n| last1 = Smith\n| first1 = Jane | author2 = Reuters Ltd"

----------------------------------------------------------------------------
(* C11 *)

\* the pieces of a text between the occurrences of the piece sep
RECURSIVE SplitOn(_, _)
SplitOn(text, sep) ==
    IF text = <<>> THEN <<<<>>>>
    ELSE LET rest == SplitOn(Tail(text), sep)
         IN  IF Head(text) = sep THEN <<<<>>>> \o rest
             ELSE <<<<Head(text)>> \o Head(rest)>> \o Tail(rest)

\* the authors handed to the builders
GivenAuthors == Unwrap(ref.author).val

\* the value of the author field in the BibTeX text, None unless the text
\* is one line author = "..."
BibTeXAuthorValue ==
    LET text == builder.bibtex.formatted_string
        n == Len(text)
    IN  IF /\ n >= 4
           /\ text[1] = "author = \"" /\ text[n - 2] = "\""
           /\ text[n - 1] = "," /\ text[n] = "\n"
        THEN Some(SubSeq(text, 2, n - 3))
        ELSE None

\* 'Family, Given' of a name: the last token, then the tokens before it
FamilyGiven(name) ==
    LET tokens == SplitWhitespace(name)
    IN  Str(tokens[Len(tokens)]) \o ", "
            \o Str(Join(SubSeq(tokens, 1, Len(tokens) - 1), <<" ">>))

\* C11: the BibTeX author field is the authors in list order joined by
\* " and ", each Person with a name written 'Family, Given': the last token
\* of the name, then the remaining tokens.
C11_BibTeXAuthors ==
    pc \in {"authored", "built"} =>
        /\ IsSome(BibTeXAuthorValue)
        /\ LET rendered == SplitOn(Unwrap(BibTeXAuthorValue), " and ")
           IN  IF GivenAuthors = <<>> THEN rendered = <<<<>>>>
               ELSE /\ Len(rendered) = Len(GivenAuthors)
                    /\ \A i \in 1..Len(GivenAuthors) :
                          (/\ GivenAuthors[i].kind = "Person"
                           /\ SplitWhitespace(GivenAuthors[i].name) # <<>>)
                          => Str(rendered[i]) = FamilyGiven(GivenAuthors[i].name)

C11_Witness ==
    /\ pc = "authored"
    /\ GivenAuthors = <<JaneSmith, Author("Person", <<"John", " ", "Doe">>)>>
    /\ Str(builder.bibtex.formatted_string)
         = "author = \"Smith, Jane and Doe, John\",\n"

----------------------------------------------------------------------------
(* attribute.rs Display for Date, and reference.rs build_citation for a
   Reference that has a date only *)

\* impl Display for Date
Date_Display(date) ==
    CASE date.variant \in {"DateTime", "YearMonthDay"} -> FormatYmd(date)
      [] date.variant = "YearMonth" -> <<ToString(date.year), "-">> \o Pad2(date.month)
      [] date.variant = "Year" -> <<ToString(date.year)>>

SampleYears == {7, 45, 987, 2020}

\* the Date values: every day of the sample years, every month, the years
SampleDateValues ==
    {[variant |-> v, year |-> y, month |-> m, day |-> d] :
        v \in {"DateTime", "YearMonthDay"}, y \in SampleYears, m \in 1..12, d \in 1..31}
    \cup {[variant |-> "YearMonth", year |-> y, month |-> m, day |-> 0] :
            y \in SampleYears, m \in 1..12}
    \cup {[variant |-> "Year", year |-> y, month |-> 0, day |-> 0] : y \in SampleYears}

\* NaiveDate holds days of the calendar only
IsCalendarDate(date) ==
    date.variant \in {"DateTime", "YearMonthDay"} =>
        date.day <= DaysInMonth(date.year, date.month)

\* date.to_string()
DisplayDate ==
    /\ pc = "dates"
    /\ LET attribute == Unwrap(OrElse(ref.date, ref.archive_date))
       IN  last_op' = Op("display", Some(attribute), Some(Date_Display(attribute.val)))
    /\ calls' = Append(calls, Call("display", OrElse(ref.date, ref.archive_date)))
    /\ pc' = "displayed"
    /\ UNCHANGED <<builder, prev, parse_info, options, attributes, multi, ref,
                   wayback, ai_seen, fetched>>

TryAddTo(b, attribute_option) ==
    [wiki    |-> Wiki_try_add(b.wiki, attribute_option),
     bibtex  |-> BibTeX_try_add(b.bibtex, attribute_option),
     harvard |-> Harvard_try_add(b.harvard, attribute_option)]

\* .try_add(date) ... .try_add(archive_date): the other fields are None
TryAddDate ==
    /\ pc = "displayed"
    /\ builder' = TryAddTo(TryAddTo(builder, ref.date), ref.archive_date)
    /\ last_op' = Op("try_add", OrElse(ref.date, ref.archive_date), None)
    /\ calls' = calls \o <<Call("try_add", ref.date), Call("try_add", ref.archive_date)>>
    /\ prev' = builder
    /\ pc' = "dated"
    /\ UNCHANGED <<parse_info, options, attributes, multi, ref, wayback, ai_seen, fetched>>

InitDate ==
    /\ pc = "dates"
    /\ parse_info = PageOf(None, [s \in AllSources |-> {}])
    /\ options = GenerationOptions(AttributeConfig_default, TranslationOptions_default,
                                   FALSE, FALSE, FALSE)
    /\ attributes = NoAttributes
    /\ multi = <<>>
    /\ \E date \in {x \in SampleDateValues : IsCalendarDate(x)} :
          \/ ref = [NoLocals EXCEPT !.date = Some(Attr("Date", date))]
          \/ ref = [NoLocals EXCEPT !.archive_date = Some(Attr("ArchiveDate", date))]
    /\ wayback = None
    /\ calls = <<>>
    /\ ai_seen = None
    /\ fetched = None
    /\ builder = Builders_new
    /\ prev = Builders_new
    /\ last_op = Op("new", None, None)

NextDate == DisplayDate \/ TryAddDate \/ Build

SpecDate == InitDate /\ [][NextDate]_vars

----------------------------------------------------------------------------
(* C12 *)

\* the date handed to Display and to the builders
GivenDate == Unwrap(OrElse(ref.date, ref.archive_date))

\* the number of decimal digits of n
Width(n) == IF n < 10 THEN 1 ELSE IF n < 100 THEN 2 ELSE IF n < 1000 THEN 3 ELSE 4

\* group is the number v written in w digits, padded with zeros
IsPadded(group, v, w) ==
    /\ group # <<>>
    /\ group[Len(group)] = ToString(v)
    /\ \A k \in 1..(Len(group) - 1) : group[k] = "0"
    /\ (Len(group) - 1) + Width(v) = w

\* text is the date written YYYY-MM-DD with every component zero-padded
IsYmd(text, date) ==
    LET groups == SplitOn(text, "-")
    IN  /\ Len(groups) = 3
        /\ IsPadded(groups[1], date.year, 4)
        /\ IsPadded(groups[2], date.month, 2)
        /\ IsPadded(groups[3], date.day, 2)

\* text is opening, then a value, then closing; the value, or <<>> when not
Between(text, opening, closing) ==
    LET n == Len(text)
        m == Len(closing)
    IN  IF /\ n >= 1 + m
           /\ text[1] = opening
           /\ SubSeq(text, n - m + 1, n) = closing
        THEN SubSeq(text, 2, n - m)
        ELSE <<>>

\* C12: formatting a Date::Year emits the year alone (Display, Wiki, BibTeX,
\* Harvard), and formatting a Date::YearMonthDay emits zero-padded
\* YYYY-MM-DD (Display, Wiki, BibTeX).
C12_DatePrecision ==
    LET date == GivenDate.val
        y == ToString(date.year)
        isDate == GivenDate.type = "Date"
    IN  /\ (last_op.op = "display" /\ date.variant = "Year") =>
                Unwrap(last_op.out) = <<y>>
        /\ (last_op.op = "display" /\ date.variant = "YearMonthDay") =>
                IsYmd(Unwrap(last_op.out), date)
        /\ (pc = "dated" /\ date.variant = "Year") =>
                /\ Str(builder.wiki.formatted_string)
                     = (IF isDate THEN "\n| date = " ELSE "\n| archive-date = ") \o y
                /\ Str(builder.bibtex.formatted_string)
                     = (IF isDate THEN "year = \"" ELSE "archivedate = \"") \o y \o "\",\n"
                /\ IF isDate THEN builder.harvard.year = Some(<<y>>)
                   ELSE builder.harvard.access_date = Some(<<y>>)
        /\ (pc = "dated" /\ date.variant = "YearMonthDay") =>
                /\ Head(builder.wiki.formatted_string) = "\n"
                /\ IsYmd(Between(Tail(builder.wiki.formatted_string),
                                 IF isDate THEN "| date = " ELSE "| archive-date = ",
                                 <<>>), date)
                /\ IsYmd(Between(builder.bibtex.formatted_string,
                                 IF isDate THEN "date = \"" ELSE "archivedate = \"",
                                 <<"\"", ",", "\n">>), date)

C12_Witness ==
    /\ pc = "dated"
    /\ GivenDate = Attr("Date", [variant |-> "YearMonthDay", year |-> 987,
                                 month |-> 2, day |-> 5])
    /\ Str(builder.wiki.formatted_string) = "\n| date = 0987-02-05"
    /\ Str(builder.bibtex.formatted_string) = "date = \"0987-02-05\",\n"

----------------------------------------------------------------------------
(* C13 *)

\* the initials of the tokens: the first character of each, with a full stop
RECURSIVE Initials(_)
Initials(tokens) ==
    IF tokens = <<>> THEN ""
    ELSE FirstChar(Head(tokens)) \o "." \o Initials(Tail(tokens))

\* rendered is what Harvard writes for one author: for a Person or Generic
\* name of two tokens or more, the family name and the initials
HarvardOne(rendered, author) ==
    LET tokens == SplitWhitespace(author.name)
    IN  (author.kind \in {"Person", "Generic"} /\ Len(tokens) >= 2) =>
            Str(rendered) = Str(tokens[Len(tokens)]) \o ", "
                                \o Initials(SubSeq(tokens, 1, Len(tokens) - 1))

HasPiece(text, piece) == \E k \in 1..Len(text) : text[k] = piece

\* C13: Harvard writes no author text for no authors, one author alone,
\* two authors joined by " and ", and of three or more the first followed
\* by " et al."; given names of Person and Generic names of two tokens or
\* more are abbreviated to initials after the family name.
C13_HarvardAuthors ==
    pc \in {"authored", "built"} =>
        /\ IsSome(builder.harvard.authors)
        /\ LET text == Unwrap(builder.harvard.authors)
               n == Len(GivenAuthors)
               parts == SplitOn(text, " and ")
           IN  CASE n = 0 -> text = <<>>
                 [] n = 1 -> /\ ~HasPiece(text, " and ") /\ ~HasPiece(text, " et al.")
                             /\ HarvardOne(text, GivenAuthors[1])
                 [] n = 2 -> /\ Len(parts) = 2 /\ ~HasPiece(text, " et al.")
                             /\ HarvardOne(parts[1], GivenAuthors[1])
                             /\ HarvardOne(parts[2], GivenAuthors[2])
                 [] OTHER -> /\ ~HasPiece(text, " and ")
                             /\ text[Len(text)] = " et al."
                             /\ ~HasPiece(SubSeq(text, 1, Len(text) - 1), " et al.")
                             /\ HarvardOne(SubSeq(text, 1, Len(text) - 1), GivenAuthors[1])

C13_Witness ==
    /\ pc = "authored"
    /\ GivenAuthors = <<Author("Person", <<"John", " ", "Doe">>), JaneSmith>>
    /\ Str(Unwrap(builder.harvard.authors)) = "Doe, J. and Smith, J."

----------------------------------------------------------------------------
(* C14 *)

FreeText == {"Title", "TranslatedTitle", "Site", "Publisher", "Journal", "Authors"}

\* what a call appended to a text
Appended(new, old) == SubSeq(new, Len(old) + 1, Len(new))

\* no tab, no newline other than one the builder lays out before a piece of
\* layout, and no two whitespace pieces in a row
Collapsed(text, layout) ==
    \A k \in 1..Len(text) :
        /\ text[k] # "\t"
        /\ text[k] = "\n" => (k < Len(text) /\ text[k + 1] \in layout)
        /\ (k < Len(text) /\ text[k] \in Whitespace) => text[k + 1] \notin Whitespace

\* the slot of the Harvard builder an attribute is kept in
HarvardSlot(h, t) ==
    CASE t = "Title" -> h.title [] t = "Site" -> h.site
      [] t = "Publisher" -> h.publisher [] t = "Authors" -> h.authors
      [] OTHER -> None

\* C14: whatever free-text field (title, translated title, site, publisher,
\* journal, author names) is added to a builder, the value the builder emits
\* has every run of whitespace collapsed: it holds no newline, no tab and no
\* two whitespace characters in a row that came from the value.
C14_WhitespaceNormalised ==
    (last_op.op = "add" /\ Unwrap(last_op.arg).type \in FreeText) =>
        LET t == Unwrap(last_op.arg).type
            wiki == Appended(builder.wiki.formatted_string, prev.wiki.formatted_string)
            bibtex == Appended(builder.bibtex.formatted_string,
                               prev.bibtex.formatted_string)
            slot == HarvardSlot(builder.harvard, t)
        IN  /\ Collapsed(Tail(wiki), {"| first"})
            /\ Collapsed(SubSeq(bibtex, 1, Len(bibtex) - 2), {})
            /\ IsSome(slot) => Collapsed(Unwrap(slot), {})

----------------------------------------------------------------------------
(* doi.rs: the date of a BibTeX entry *)

\* biblatex::Datetime
Datetime(year, month, day) == [year |-> year, month |-> month, day |-> day]

\* PermissiveType::Typed(biblatex::Date)
Typed(value, at, approximate, uncertain) ==
    [kind |-> "Typed", value |-> value, at |-> at,
     approximate |-> approximate, uncertain |-> uncertain]

\* PermissiveType::Chunks
Chunks == [kind |-> "Chunks"]

\* NaiveDate::from_ymd_opt
from_ymd_opt(year, month, day) ==
    IF month \in 1..12 /\ day >= 1 /\ day <= DaysInMonth(year, month)
    THEN Some([variant |-> "YearMonthDay", year |-> year, month |-> month, day |-> day])
    ELSE None

\* try_create_internal_date
try_create_internal_date(datetime) ==
    CASE IsSome(datetime.month) /\ IsSome(datetime.day) ->
            from_ymd_opt(datetime.year, Unwrap(datetime.month), Unwrap(datetime.day))
      [] IsSome(datetime.month) /\ IsNone(datetime.day) ->
            Some([variant |-> "YearMonth", year |-> datetime.year,
                  month |-> Unwrap(datetime.month), day |-> 0])
      [] IsNone(datetime.month) /\ IsNone(datetime.day) ->
            Some([variant |-> "Year", year |-> datetime.year, month |-> 0, day |-> 0])
      [] OTHER -> None

\* date_to_attribute that reads the value whatever the flags say
date_to_attribute_ignoring_flags(pt) ==
    IF pt.kind = "Typed" /\ pt.value = "At"
    THEN MapAttr("Date", try_create_internal_date(pt.at))
    ELSE None

\* date_to_attribute
date_to_attribute(pt) ==
    IF pt.kind = "Typed"
    THEN IF pt.approximate \/ pt.uncertain THEN None
         ELSE IF pt.value = "At"
              THEN MapAttr("Date", try_create_internal_date(pt.at))
              ELSE None
    ELSE None

\* attribute_type_to_attribute, AttributeType::Date: entry.date().ok()?
Entry_date_attribute(entry) ==
    IF IsSome(entry.date) THEN date_to_attribute(Unwrap(entry.date)) ELSE None

\* Doi::parse_attribute for AttributeType::Date on a bibliography of one entry
Doi_parse_date(pi) ==
    IF IsNone(pi.bibliography) THEN None
    ELSE Entry_date_attribute(Unwrap(pi.bibliography)[1])

SampleDatetimes ==
    {Datetime(y, m, d) :
        y \in {1970, 2024},
        m \in {None} \cup {Some(k) : k \in 0..12},
        d \in {None} \cup {Some(k) : k \in {0, 1, 15, 29, 30, 31}}}

\* the date fields a BibTeX entry can carry
SampleEntryDates ==
    {None, Some(Chunks)}
    \cup {Some(Typed(value, at, approximate, uncertain)) :
            value \in {"At", "After", "Before", "Between"}, at \in SampleDatetimes,
            approximate \in BOOLEAN, uncertain \in BOOLEAN}

\* parse(.., AttributeType::Date, ..) reaching MetadataType::Doi
DoiDate ==
    /\ pc = "doi"
    /\ attributes' = [attributes EXCEPT !["Date"] = Doi_parse_date(parse_info)]
    /\ pc' = "doi_done"
    /\ UNCHANGED <<parse_info, options, multi, ref, wayback, calls, ai_seen,
                   fetched, builderVars>>

InitDoi ==
    /\ pc = "doi"
    /\ \E date \in SampleEntryDates :
          parse_info = [url |-> Some(UserUrl), bibliography |-> Some(<<[date |-> date]>>)]
    /\ options = GenerationOptions(AttributeConfig_default, TranslationOptions_default,
                                   FALSE, FALSE, FALSE)
    /\ attributes = NoAttributes
    /\ multi = <<>>
    /\ ref = NoLocals
    /\ wayback = None
    /\ calls = <<>>
    /\ ai_seen = None
    /\ fetched = None
    /\ builder = <<>> /\ prev = <<>> /\ last_op = <<>>

NextDoi == DoiDate

SpecDoi == InitDoi /\ [][NextDoi]_vars

----------------------------------------------------------------------------
(* C15 *)

\* the date field of the entry of the request
EntryDate == Unwrap(parse_info.bibliography)[1].date

IsFlagged(date) ==
    /\ IsSome(date) /\ Unwrap(date).kind = "Typed"
    /\ (Unwrap(date).approximate \/ Unwrap(date).uncertain)

\* C15: a typed BibTeX date flagged approximate or uncertain resolves to no
\* Date, whatever year, month and day it carries; a Date is produced only
\* for an exact date value at a single point.
C15_DoiNeverGuessesDate ==
    pc = "doi_done" =>
        /\ IsFlagged(EntryDate) => attributes["Date"] = None
        /\ IsSome(attributes["Date"]) =>
              /\ IsSome(EntryDate)
              /\ Unwrap(EntryDate).kind = "Typed"
              /\ Unwrap(EntryDate).value = "At"
              /\ ~Unwrap(EntryDate).approximate
              /\ ~Unwrap(EntryDate).uncertain

C15_Witness ==
    /\ pc = "doi_done"
    /\ EntryDate = Some(Typed("At", Datetime(2024, Some(1), Some(15)), TRUE, FALSE))
    /\ attributes["Date"] = None

----------------------------------------------------------------------------
(* zotero.rs: validity of a Citoid result, and the blacklist *)

\* char::to_lowercase on the pieces the model uses
LowerPiece(piece) ==
    CASE piece = "Twitter.com" -> "twitter.com"
      [] piece = "YouTube.com" -> "youtube.com"
      [] piece = "Not Found" -> "not found"
      [] piece = "Error" -> "error"
      [] piece = "Access Denied" -> "access denied"
      [] OTHER -> piece

\* str::to_lowercase
to_lowercase(text) == [k \in 1..Len(text) |-> LowerPiece(text[k])]

\* str::contains, for a pattern that is one piece
Contains(text, pattern) == \E k \in 1..Len(text) : text[k] = pattern

\* str::starts_with, for a pattern that is one piece
StartsWith(text, pattern) == text # <<>> /\ text[1] = pattern

ZOTERO_BLACKLIST ==
    {"facebook.com", "twitter.com", "x.com", "instagram.com", "tiktok.com",
     "archive.org/web", "youtube.com", "youtu.be", "linkedin.com", "reddit.com"}

\* should_skip_zotero comparing the url as it is written
should_skip_zotero_case_sensitive(url) ==
    \E blocked \in ZOTERO_BLACKLIST : Contains(url, blocked)

\* should_skip_zotero
should_skip_zotero(url) ==
    LET url_lower == to_lowercase(url)
    IN  \E blocked \in ZOTERO_BLACKLIST : Contains(url_lower, blocked)

\* a ZoteroResult: its title, and what parse_from_result yields from it
ZoteroResult(title, has) ==
    [title  |-> title,
     values |-> [t \in AttributeType |->
                    IF (t = "Title" /\ IsSome(title)) \/ (t # "Title" /\ t \in has)
                    THEN Some(SourceAttribute("Zotero", t))
                    ELSE None]]

\* is_valid that takes every result for a valid one
ZoteroResult_is_valid_always(result) == TRUE

\* ZoteroResult::is_valid
ZoteroResult_is_valid(result) ==
    IF IsSome(result.title)
    THEN LET title == Unwrap(result.title)
             title_lower == to_lowercase(title)
         IN  ~ \/ StartsWith(title_lower, "not found")
               \/ title_lower = <<"404">>
               \/ title_lower = <<"error">>
               \/ title_lower = <<"access denied">>
               \/ title = <<>>
    ELSE FALSE

\* AttributeConfig::parsers_used, as a set
parsers_used(config) ==
    UNION {{UnwrapOrDefault(config[k])[i] : i \in 1..Len(UnwrapOrDefault(config[k]))} :
            k \in ConfigFields}

----------------------------------------------------------------------------
(* parser.rs ParseInfo::from_url, step by step, followed by
   create_reference (lib.rs generate) or by parse_all
   (lib.rs fetch_parse_info, parse_all_metadata_from_parse_info) *)

\* the urls asked for: one per blacklist entry, and others
SampleUrls ==
    {<<"https://", blocked, "/page">> : blocked \in ZOTERO_BLACKLIST}
    \cup {<<"https://www.nytimes.com/article">>,
          <<"https://www.", "YouTube.com", "/watch">>,
          <<"https://www.netfli", "x.com", "/title">>,
          <<"https://", Host, "/", Page>>}

SampleTitles ==
    {None, Some(<<>>), Some(<<"404">>), Some(<<"error">>), Some(<<"not found">>),
     Some(<<"Not Found">>), Some(<<"not found", ": no such page">>),
     Some(<<"Access Denied">>), Some(<<"A", " ", "title">>)}

\* what fetch_zotero_metadata returns
CitoidOutcomes ==
    {Err("CurlError"), Err("NoResults")}
    \cup {Ok(ZoteroResult(title, {"Site", "Author"})) : title \in SampleTitles}

\* the attribute configurations of the requests
FromUrlConfigs ==
    {AttributeConfig_default,
     [AttributeConfig_default EXCEPT !.title = Some(<<"Zotero">>)],
     AttributeConfig_new(<<"Zotero">>),
     AttributeConfig_new(<<"HtmlMeta">>),
     AttributeConfig_new(<<"Doi">>),
     AttributeConfig_new(<<"OpenGraph", "Doi">>),
     AttributeConfig_new(<<"Doi", "Zotero", "SchemaOrg">>)}

\* what the page and its DOI record hold for the sources that read them
PageContent == [s \in PageSources |-> {"Title", "Date"}]

NoParseInfo == PageOf(None, [s \in AllSources |-> {}])

\* lines 41-43
schema_or_og(parsers) == "OpenGraph" \in parsers \/ "SchemaOrg" \in parsers
doi(parsers) == "Doi" \in parsers
use_zotero(parsers) == "Zotero" \in parsers

\* line 39: get_html(url)?
GetHtml ==
    /\ pc = "from_url"
    /\ \E raw_html \in {Ok("html"), Err("CurlError")} :
          /\ calls' = Append(calls, Call("get_html", raw_html))
          /\ fetched' = [fetched EXCEPT !.raw_html = Some(raw_html),
                            !.result = IF raw_html.ok THEN None ELSE Some(raw_html)]
          /\ pc' = IF raw_html.ok THEN "parse_html" ELSE "error"
    /\ UNCHANGED <<parse_info, options, attributes, multi, ref, wayback, ai_seen,
                   builderVars>>

\* line 45: parse_html_from_string(raw_html, &schema_or_og)
ParseHtml ==
    /\ pc = "parse_html"
    /\ \E html \in IF schema_or_og(fetched.parsers)
                   THEN {Ok("HTML"), Err("HTMLParseError")}
                   ELSE {Err("ParseSkip")} :
          fetched' = [fetched EXCEPT !.html = Some(html)]
    /\ pc' = "doi_to_bib"
    /\ UNCHANGED <<parse_info, options, attributes, multi, ref, wayback, calls,
                   ai_seen, builderVars>>

\* line 46: doi::try_doi_to_bib(url, raw_html, &doi)
DoiToBib ==
    /\ pc = "doi_to_bib"
    /\ \E bib \in IF doi(fetched.parsers)
                  THEN {Ok("Bibliography"), Err("DoiError")}
                  ELSE {Err("ParseSkip")} :
          fetched' = [fetched EXCEPT !.bib = Some(bib)]
    /\ pc' = "citoid"
    /\ UNCHANGED <<parse_info, options, attributes, multi, ref, wayback, calls,
                   ai_seen, builderVars>>

\* lines 49, 65-69: Zotero not requested, or the url blacklisted
CitoidSkipped ==
    /\ pc = "citoid"
    /\ ~(use_zotero(fetched.parsers) /\ ~should_skip_zotero(fetched.url))
    /\ fetched' = [fetched EXCEPT !.zotero_result = None]
    /\ pc' = "assemble"
    /\ UNCHANGED <<parse_info, options, attributes, multi, ref, wayback, calls,
                   ai_seen, builderVars>>

\* lines 49-64: fetch_zotero_metadata(url), kept only if valid
CitoidFetch ==
    /\ pc = "citoid"
    /\ use_zotero(fetched.parsers) /\ ~should_skip_zotero(fetched.url)
    /\ \E response \in CitoidOutcomes :
          /\ calls' = Append(calls, Call("citoid", response))
          /\ fetched' = [fetched EXCEPT !.zotero_result =
                            IF response.ok /\ ZoteroResult_is_valid(Unwrap(response.val))
                            THEN Some(Unwrap(response.val).values)
                            ELSE None]
    /\ pc' = "assemble"
    /\ UNCHANGED <<parse_info, options, attributes, multi, ref, wayback, ai_seen,
                   builderVars>>

\* line 71: the condition of ParseFailure
AllParsersFailed(f) ==
    /\ schema_or_og(f.parsers) /\ ~Unwrap(f.html).ok
    /\ doi(f.parsers) /\ ~Unwrap(f.bib).ok
    /\ IsNone(f.zotero_result)

\* lines 75-81: the ParseInfo; a source reads what it was given
ParseInfo(f) ==
    [url  |-> Some(f.url),
     meta |-> [s \in PageSources |->
                 [t \in AttributeType |->
                    IF /\ t \in f.page[s]
                       /\ s \in {"OpenGraph", "SchemaOrg"} => Unwrap(f.html).ok
                       /\ s = "Doi" => Unwrap(f.bib).ok
                    THEN Some(SourceAttribute(s, t)) ELSE None]],
     zotero_result |-> f.zotero_result]

\* lines 71-81: Err(ParseFailure), or the ParseInfo handed to
\* create_reference or to parse_all
Assemble ==
    /\ pc = "assemble"
    /\ IF AllParsersFailed(fetched)
       THEN /\ fetched' = [fetched EXCEPT !.result = Some(Err("ParseFailure"))]
            /\ pc' = "error"
            /\ UNCHANGED parse_info
       ELSE /\ fetched' = [fetched EXCEPT !.result = Some(Ok("ParseInfo"))]
            /\ parse_info' = ParseInfo(fetched)
            /\ pc' \in {"start", "parse_all"}
    /\ UNCHANGED <<options, attributes, multi, ref, wayback, calls, ai_seen,
                   builderVars>>

InitFromUrl ==
    /\ pc = "from_url"
    /\ \E config \in FromUrlConfigs, url \in SampleUrls :
          /\ options = GenerationOptions(config, TranslationOptions_default,
                                         FALSE, FALSE, FALSE)
          /\ fetched = [url |-> url, parsers |-> parsers_used(config),
                        page |-> PageContent, raw_html |-> None, html |-> None,
                        bib |-> None, zotero_result |-> None, result |-> None]
    /\ parse_info = NoParseInfo
    /\ attributes = NoAttributes
    /\ multi = <<>>
    /\ ref = NoLocals
    /\ wayback = None
    /\ calls = <<>>
    /\ ai_seen = None
    /\ builder = <<>> /\ prev = <<>> /\ last_op = <<>>

NextFromUrl ==
    \/ GetHtml
    \/ ParseHtml
    \/ DoiToBib
    \/ CitoidSkipped
    \/ CitoidFetch
    \/ Assemble
    \/ Initialize
    \/ AiSkipped
    \/ TranslateNoCall
    \/ ArchiveSkipped
    \/ BuildReference
    \/ ParseAll

SpecFromUrl == InitFromUrl /\ [][NextFromUrl]_vars

----------------------------------------------------------------------------
(* C16 *)

\* the Citoid calls issued so far
CitoidCalls == SelectSeq(calls, LAMBDA c : c.op = "citoid")

\* the titles that mark a Citoid result as not resolved
UnresolvedTitles ==
    {None, Some(<<>>), Some(<<"404">>), Some(<<"error">>), Some(<<"not found">>)}

\* Citoid answered the request with a result that has such a title
InvalidCitoidResult ==
    /\ CitoidCalls # <<>>
    /\ CitoidCalls[1].result.ok
    /\ Unwrap(CitoidCalls[1].result.val).title \in UnresolvedTitles

\* the priority list field t is resolved with, Zotero left out
PriorityWithoutZotero(t) ==
    SelectSeq(UnwrapOrDefault(AttributeConfig_get(options.attribute_config, t)),
              LAMBDA s : s # "Zotero")

AfterAssemble ==
    pc \in {"start", "ai", "translate", "archive", "build", "done", "parse_all",
            "collected"}

\* C16: when the Citoid result has no title or the title "", "404", "error"
\* or "not found", the ParseInfo holds no Citoid result and the Zotero source
\* yields nothing for any field: every field resolves as if Zotero were not
\* in its priority list, and the multi-source collection has no Zotero entry.
C16_InvalidCitoidContributesNothing ==
    InvalidCitoidResult =>
        /\ fetched.zotero_result = None
        /\ AfterAssemble =>
              /\ parse_info.zotero_result = None
              /\ \A t \in AttributeType : Yields("Zotero", t) = None
        /\ pc \in {"ai", "translate", "archive", "build", "done"} =>
              \A t \in AttributeType :
                  attributes[t] = FirstYield(PriorityWithoutZotero(t), t)
        /\ pc = "collected" =>
              \A t \in DOMAIN multi : "Zotero" \notin DOMAIN multi[t]

C16_Witness ==
    /\ InvalidCitoidResult
    /\ Unwrap(CitoidCalls[1].result.val).title = Some(<<"404">>)
    /\ pc = "collected"
    /\ "Title" \in DOMAIN multi
    /\ "Zotero" \notin DOMAIN multi["Title"]

----------------------------------------------------------------------------
(* C17 *)

\* from_url has gone past the Citoid step
PastCitoid == pc \notin {"from_url", "parse_html", "doi_to_bib", "citoid", "error"}

\* the lower-cased url of the request contains a blacklist entry
Blacklisted ==
    \E k \in 1..Len(fetched.url) : LowerPiece(fetched.url[k]) \in ZOTERO_BLACKLIST

\* C17: for a url whose lower-cased text contains a blacklist entry no
\* Citoid request is ever issued and the Citoid result is absent, even when
\* Zotero is a configured source; for other urls with Zotero configured the
\* request is issued.
C17_BlacklistNeverQueried ==
    /\ Blacklisted =>
          /\ CitoidCalls = <<>>
          /\ fetched.zotero_result = None
          /\ parse_info.zotero_result = None
    /\ (~Blacklisted /\ "Zotero" \in fetched.parsers /\ PastCitoid) =>
          Len(CitoidCalls) = 1

C17_Witness ==
    /\ fetched.url = <<"https://www.", "YouTube.com", "/watch">>
    /\ "Zotero" \in fetched.parsers
    /\ pc = "done"
    /\ CitoidCalls = <<>>

----------------------------------------------------------------------------
(* C18 *)

\* the collection holds an entry for field t and source s
HoldsEntry(t, s) == t \in DOMAIN multi /\ s \in DOMAIN multi[t]

\* C18: once parse_all has run, the collection holds an entry (t, s) = v
\* exactly when source s of the five yields v for field t, whatever the other
\* sources yield; it holds no entry for Ai, and field t has no key exactly
\* when none of the five sources yields a value for it.
C18_MultiSourceKeepsEverySource ==
    pc = "collected" =>
        \A t \in AttributeType :
            /\ \A s \in AllSources :
                  /\ HoldsEntry(t, s) <=> IsSome(Yields(s, t))
                  /\ HoldsEntry(t, s) => multi[t][s] = Unwrap(Yields(s, t))
            /\ ~HoldsEntry(t, "Ai")
            /\ t \notin DOMAIN multi <=> \A s \in AllSources : Yields(s, t) = None

\* a field that two sources yield, and a second field with no key
C18_Witness ==
    /\ pc = "collected"
    /\ "Title" \in DOMAIN multi
    /\ DOMAIN multi["Title"] = {"OpenGraph", "Doi", "Zotero"}
    /\ "Author" \notin DOMAIN multi

----------------------------------------------------------------------------
(* C19 *)

\* the sources whose failure to parse the document the error is about
ParsingSources == {"OpenGraph", "SchemaOrg", "Doi", "Zotero"}

\* the requested source s did not parse the document: no HTML structure for
\* OpenGraph and Schema.org, no bibliography for Doi, no valid Citoid result
SourceFailed(s) ==
    CASE s \in {"OpenGraph", "SchemaOrg"} -> ~Unwrap(fetched.html).ok
      [] s = "Doi"                        -> ~Unwrap(fetched.bib).ok
      [] s = "Zotero"                     -> fetched.zotero_result = None

\* every source of the request is one of these and each of them failed
EveryRequestedSourceFailed ==
    /\ fetched.parsers # {}
    /\ fetched.parsers \subseteq ParsingSources
    /\ \A s \in fetched.parsers : SourceFailed(s)

\* one of these sources was requested and parsed the document
SomeRequestedSourceParsed ==
    \E s \in fetched.parsers \cap ParsingSources : ~SourceFailed(s)

\* from_url has returned for a page that was fetched
FromUrlReturned ==
    /\ pc \notin {"from_url", "parse_html", "doi_to_bib", "citoid", "assemble"}
    /\ Unwrap(fetched.raw_html).ok

\* C19: once the page is fetched and the sources have run, generation ends
\* in ParseFailure when every requested source failed to parse the document,
\* and hands on a ParseInfo, from which the Reference is built, when at least
\* one requested source parsed it.
C19_FatalParse ==
    FromUrlReturned =>
        /\ EveryRequestedSourceFailed => fetched.result = Some(Err("ParseFailure"))
        /\ SomeRequestedSourceParsed => fetched.result = Some(Ok("ParseInfo"))

----------------------------------------------------------------------------
(* C20 *)

\* the AI calls issued so far
AiCalls == SelectSeq(calls, LAMBDA c : c.op = "ai")

\* the fields whose absence asks for the AI fallback
AiTriggerFields == {"Title", "Author", "Date", "Site", "Publisher", "Language"}

\* AI fallback is enabled, priority resolution left one of the six fields
\* unresolved, and the request has an originating url
AiGuard ==
    /\ options.ai_options.enabled
    /\ \E t \in AiTriggerFields : attributes[t] = None
    /\ parse_info.url # None

\* C20: at most one AI call is issued per request; none before the priority
\* resolution of the fields has finished; when one is issued it precedes
\* every translation and archive call; and once the AI step is over exactly
\* one call was issued if AI fallback is enabled, one of title, author, date,
\* site, publisher, language was left unresolved and the request has a url,
\* and none otherwise.
C20_AiCallGuardedSingleStep ==
    /\ Len(AiCalls) <= 1
    /\ pc \in {"start", "ai"} => calls = <<>>
    /\ AiCalls # <<>> => calls[1].op = "ai"
    /\ pc \notin {"start", "ai"} => (Len(AiCalls) = 1 <=> AiGuard)

\* a finished request with its AI call followed by a later external call
C20_Witness ==
    /\ pc = "done"
    /\ Len(AiCalls) = 1
    /\ Len(calls) >= 2
    /\ calls[2].op # "ai"

----------------------------------------------------------------------------
(* citation.rs: attributes of pairwise distinct variants added in any order *)

\* the attributes added: the seven variants the Harvard builder keeps
HarvardSamples ==
    {Attr("Title", <<"Test", " ", "title">>),
     Attr("Authors", <<JaneSmith, Staff>>),
     Attr("Date", [variant |-> "Year", year |-> 2023, month |-> 0, day |-> 0]),
     Attr("Date", [variant |-> "YearMonthDay", year |-> 987, month |-> 11, day |-> 5]),
     Attr("Site", <<"Example">>),
     Attr("Publisher", <<"ACME">>),
     Attr("Url", <<"https://", "example.com", "/article">>),
     Attr("ArchiveDate", [variant |-> "DateTime", year |-> 2026, month |-> 1, day |-> 24])}

\* the attributes added so far
AddedSoFar == {Unwrap(calls[k].result) : k \in {i \in 1..Len(calls) : calls[i].op = "add"}}

\* builder.add(&attribute) of a variant not added before
AddDistinct ==
    /\ pc = "harvard"
    /\ \E attribute \in HarvardSamples :
          /\ \A a \in AddedSoFar : a.type # attribute.type
          /\ builder' = [wiki    |-> Wiki_add(builder.wiki, attribute),
                         bibtex  |-> BibTeX_add(builder.bibtex, attribute),
                         harvard |-> Harvard_add(builder.harvard, attribute)]
          /\ last_op' = Op("add", Some(attribute), None)
          /\ calls' = Append(calls, Call("add", Some(attribute)))
    /\ prev' = builder
    /\ UNCHANGED <<pc, parse_info, options, attributes, multi, ref, wayback, ai_seen, fetched>>

InitHarvard ==
    /\ pc = "harvard"
    /\ parse_info = PageOf(None, [s \in AllSources |-> {}])
    /\ options = GenerationOptions(AttributeConfig_default, TranslationOptions_default,
                                   FALSE, FALSE, FALSE)
    /\ attributes = NoAttributes
    /\ multi = <<>>
    /\ ref = NoLocals
    /\ wayback = None
    /\ calls = <<>>
    /\ ai_seen = None
    /\ fetched = None
    /\ builder = Builders_new
    /\ prev = Builders_new
    /\ last_op = Op("new", None, None)

NextHarvard == AddDistinct \/ Build

SpecHarvard == InitHarvard /\ [][NextHarvard]_vars

----------------------------------------------------------------------------
(* C21 *)

\* the attribute of variant t in set S, if any
OfVariant(S, t) ==
    IF \E a \in S : a.type = t THEN Some((CHOOSE a \in S : a.type = t).val) ELSE None

\* Author (Year) 'Title', Site. Available at: URL (Accessed: Date). for the
\* attributes of set S, whatever the order they were added in
HarvardLayout(S) ==
    LET authors == OfVariant(S, "Authors")
        date    == OfVariant(S, "Date")
        title   == OfVariant(S, "Title")
        site    == OfVariant(S, "Site")
        pub     == OfVariant(S, "Publisher")
        url     == OfVariant(S, "Url")
        access  == OfVariant(S, "ArchiveDate")
    IN  (IF authors = None THEN "" ELSE Str(Harvard_format_authors(Unwrap(authors))) \o " ")
        \o "(" \o (IF date = None THEN "n.d." ELSE Str(Harvard_extract_year(Unwrap(date)))) \o ")"
        \o (IF title = None THEN "" ELSE " '" \o Str(Unwrap(title)) \o "'")
        \o (IF site # None THEN ", " \o Str(Unwrap(site))
            ELSE IF pub # None THEN ", " \o Str(Unwrap(pub)) ELSE "")
        \o "."
        \o (IF url = None THEN "" ELSE " Available at: " \o Str(Unwrap(url)))
        \o (IF access = None THEN ""
            ELSE " (Accessed: " \o Str(Harvard_format_access_date(Unwrap(access))) \o ").")

\* C21: the text build() returns for attributes of pairwise distinct variants
\* added to a fresh Harvard builder is determined by the set of attributes
\* alone, not by the order of the adds: it is Author (Year) 'Title', Site.
\* Available at: URL (Accessed: Date)., with the site preferred over the
\* publisher and (n.d.) when no date was added.
C21_HarvardOrderIndependent ==
    (pc = "built" /\ calls[1].op = "add" /\ Unwrap(calls[1].result) \in HarvardSamples) =>
        Str(Unwrap(last_op.out).harvard) = HarvardLayout(AddedSoFar)

\* all seven variants added, the publisher after the site and the date last
C21_Witness ==
    /\ pc = "built"
    /\ Len(calls) = 8
    /\ Unwrap(calls[1].result).type = "Publisher"
    /\ Unwrap(calls[2].result).type = "Site"
    /\ Unwrap(calls[7].result).type = "Date"
    /\ Str(Unwrap(last_op.out).harvard) =
          "Smith, J. and Staff (2023) 'Test title', Example. Available at: https://example.com/article (Accessed: 24 January 2026)."

----------------------------------------------------------------------------
(* opengraph.rs: the lookup of one attribute in the og:* property map *)

\* keys: the external keys of an attribute type, in order
og_keys(key) ==
    CASE key = "Title"  -> <<"title">>
      [] key = "Author" -> <<"article:author">>
      [] key = "Locale" -> <<"locale">>
      [] key = "Site"   -> <<"site_name">>
      [] key = "Url"    -> <<"url">>
      [] key = "Date"   -> <<"article:published_time", "article:modified_time",
                             "updated_time">>
      [] key = "Type"   -> <<"type">>
      [] OTHER          -> <<>>

\* try_find_attribute: the value of the first key the map contains
try_find_attribute(og, external_keys) ==
    LET present == {i \in 1..Len(external_keys) : external_keys[i] \in DOMAIN og}
    IN  IF present = {} THEN None
        ELSE Some(og[external_keys[CHOOSE i \in present : \A j \in present : i <= j]])

\* the contents a property of the page may have
OgContents == {"", "2024-01-15T10:00:00Z", "Some text"}

\* parse_date: DateTime::parse_from_rfc3339, then the NaiveDate
og_parse_date(date_string) ==
    IF date_string = "2024-01-15T10:00:00Z"
    THEN Some([variant |-> "YearMonthDay", year |-> 2024, month |-> 1, day |-> 15])
    ELSE None

\* attribute_type_to_attribute
og_attribute_type_to_attribute(attribute_type, attribute_value) ==
    CASE attribute_type = "Title"  -> Some(Attr("Title", <<attribute_value>>))
      [] attribute_type = "Author" -> Some(Attr("Authors", <<attribute_value>>))
      [] attribute_type = "Date"   ->
            LET date_option == og_parse_date(attribute_value)
            IN  IF IsSome(date_option) THEN Some(Attr("Date", Unwrap(date_option)))
                ELSE None
      [] attribute_type \in {"Locale", "Language", "Site", "Url"} ->
            Some(Attr(attribute_type, <<attribute_value>>))
      [] OTHER -> None

\* the property maps over the keys of one attribute type
OgMaps(keys) ==
    UNION {[present -> OgContents] : present \in SUBSET {keys[i] : i \in 1..Len(keys)}}

\* parse_attributes, one attribute type: the lookup
TryFindAttribute ==
    /\ pc = "og"
    /\ fetched' = [fetched EXCEPT !.found =
                      try_find_attribute(fetched.og, og_keys(fetched.attribute_type))]
    /\ pc' = "og_found"
    /\ UNCHANGED <<parse_info, options, attributes, multi, ref, wayback, calls,
                   ai_seen, builderVars>>

\* parse_attributes, one attribute type: the conversion and insert_if_some
OgToAttribute ==
    /\ pc = "og_found"
    /\ fetched' = [fetched EXCEPT !.attribute =
                      IF IsSome(fetched.found)
                      THEN og_attribute_type_to_attribute(fetched.attribute_type,
                                                          Unwrap(fetched.found))
                      ELSE None]
    /\ pc' = "og_done"
    /\ UNCHANGED <<parse_info, options, attributes, multi, ref, wayback, calls,
                   ai_seen, builderVars>>

InitOg ==
    /\ pc = "og"
    /\ \E attribute_type \in AttributeType :
          \E og \in OgMaps(og_keys(attribute_type)) :
              fetched = [og |-> og, attribute_type |-> attribute_type,
                         found |-> None, attribute |-> None]
    /\ parse_info = PageOf(None, [s \in AllSources |-> {}])
    /\ options = GenerationOptions(AttributeConfig_default, TranslationOptions_default,
                                   FALSE, FALSE, FALSE)
    /\ attributes = NoAttributes
    /\ multi = <<>>
    /\ ref = NoLocals
    /\ wayback = None
    /\ calls = <<>>
    /\ ai_seen = None
    /\ builder = <<>> /\ prev = <<>> /\ last_op = <<>>

NextOg == TryFindAttribute \/ OgToAttribute

SpecOg == InitOg /\ [][NextOg]_vars

----------------------------------------------------------------------------
(* C22 *)

\* the value of the first key of the list whose value in the map is non-empty
FirstNonEmpty(og, keys) ==
    LET filled == {i \in 1..Len(keys) : keys[i] \in DOMAIN og /\ og[keys[i]] # ""}
    IN  IF filled = {} THEN None
        ELSE Some(og[keys[CHOOSE i \in filled : \A j \in filled : i <= j]])

\* C22: for every field the lookup returns the value of the first key of the
\* field's key list whose value is non-empty, passing over a key that is
\* present with an empty value, and None when no key has a non-empty value.
C22_OgFirstNonEmptyKeyWins ==
    pc \in {"og_found", "og_done"} =>
        fetched.found = FirstNonEmpty(fetched.og, og_keys(fetched.attribute_type))

----------------------------------------------------------------------------
(* schema_org/author.rs: the authors of a JSON-LD "author" value *)

\* serde_json::Value, as far as the author strategies look at it
JsonString(str) == [json |-> "String", str |-> str]
JsonNumber == [json |-> "Number", str |-> <<>>]

\* Value::Object(map) with the members "@type" and "name", each present or not
JsonObject(type, name) == [json |-> "Object", type |-> type, name |-> name]

\* match_author_type
match_author_type(author_type, name) ==
    CASE author_type = <<"Person">>       -> Some(Author("Person", name))
      [] author_type = <<"Organization">> -> Some(Author("Organization", name))
      [] OTHER                            -> None

\* match_tuple
match_tuple(object_type, name_value) ==
    IF object_type.json = "String" /\ name_value.json = "String"
    THEN match_author_type(object_type.str, name_value.str)
    ELSE None

\* try_find_author_array_of_persons_stategy: the authors found, or the panic
\* of todo!() on an entry that is no object and of map[key] on an absent key
RECURSIVE array_of_persons_loop(_, _)
array_of_persons_loop(value_list, ret) ==
    IF value_list = <<>> THEN [panicked |-> FALSE, ret |-> ret]
    ELSE LET value == Head(value_list)
         IN  IF value.json # "Object" THEN [panicked |-> TRUE, ret |-> ret]
             ELSE IF IsNone(value.type) \/ IsNone(value.name)
                  THEN [panicked |-> TRUE, ret |-> ret]
             ELSE LET author_option == match_tuple(Unwrap(value.type), Unwrap(value.name))
                  IN  array_of_persons_loop(Tail(value_list),
                          IF IsSome(author_option)
                          THEN Append(ret, Unwrap(author_option)) ELSE ret)

try_find_author_array_of_persons_stategy(value_list) ==
    LET loop == array_of_persons_loop(value_list, <<>>)
    IN  [panicked |-> loop.panicked,
         found    |-> IF loop.panicked \/ loop.ret = <<>> THEN None ELSE Some(loop.ret)]

\* the entries an "author" array may hold
SampleEntries ==
    {JsonObject(Some(JsonString(<<"Person">>)), Some(JsonString(<<"Jane", " ", "Smith">>))),
     JsonObject(Some(JsonString(<<"Organization">>)), Some(JsonString(<<"Reuters">>))),
     JsonObject(Some(JsonString(<<"Thing">>)), Some(JsonString(<<"Widget">>))),
     JsonObject(Some(JsonNumber), Some(JsonString(<<"Seven">>))),
     JsonObject(None, Some(JsonString(<<"Untyped">>))),
     JsonObject(Some(JsonString(<<"Person">>)), None),
     [json |-> "String", type |-> None, name |-> None]}

\* the values of schema_value["author"]
SampleAuthorValues ==
    {[json |-> "Array", list |-> l] : l \in ListsUpTo(SampleEntries, MaxAuthors)}
    \cup {[json |-> j, list |-> <<>>] : j \in {"Object", "String", "Null"}}

\* try_find_author_attribute, lines 59-64: the match on the value
MatchAuthorValue ==
    /\ pc = "schema_author"
    /\ IF fetched.value.json = "Array"
       THEN /\ pc' = "schema_array"
            /\ UNCHANGED fetched
       ELSE /\ pc' = "schema_done"
            /\ fetched' = [fetched EXCEPT !.attribute = None]
    /\ UNCHANGED <<parse_info, options, attributes, multi, ref, wayback, calls,
                   ai_seen, builderVars>>

\* lines 61, 66-76: the array strategy and create_author_attribute
AuthorArrayOfPersons ==
    /\ pc = "schema_array"
    /\ LET found == try_find_author_array_of_persons_stategy(fetched.value.list)
       IN  fetched' = [fetched EXCEPT
                          !.panicked = found.panicked,
                          !.attribute = IF IsSome(found.found)
                                        THEN Some(Attr("Authors", Unwrap(found.found)))
                                        ELSE None]
    /\ pc' = "schema_done"
    /\ UNCHANGED <<parse_info, options, attributes, multi, ref, wayback, calls,
                   ai_seen, builderVars>>

InitSchemaAuthor ==
    /\ pc = "schema_author"
    /\ \E value \in SampleAuthorValues :
          fetched = [value |-> value, panicked |-> FALSE, attribute |-> None]
    /\ parse_info = PageOf(None, [s \in AllSources |-> {}])
    /\ options = GenerationOptions(AttributeConfig_default, TranslationOptions_default,
                                   FALSE, FALSE, FALSE)
    /\ attributes = NoAttributes
    /\ multi = <<>>
    /\ ref = NoLocals
    /\ wayback = None
    /\ calls = <<>>
    /\ ai_seen = None
    /\ builder = <<>> /\ prev = <<>> /\ last_op = <<>>

NextSchemaAuthor == MatchAuthorValue \/ AuthorArrayOfPersons

SpecSchemaAuthor == InitSchemaAuthor /\ [][NextSchemaAuthor]_vars

----------------------------------------------------------------------------
(* C23 *)

\* the entry is an object whose @type is Person or Organization, with a name
Recognised(entry) ==
    /\ entry.json = "Object"
    /\ IsSome(entry.type) /\ IsSome(entry.name)
    /\ Unwrap(entry.type).json = "String" /\ Unwrap(entry.name).json = "String"
    /\ Unwrap(entry.type).str \in {<<"Person">>, <<"Organization">>}

\* the recognised entries of the array, in their order, with their type
RECURSIVE KeptAuthors(_)
KeptAuthors(value_list) ==
    IF value_list = <<>> THEN <<>>
    ELSE LET rest == KeptAuthors(Tail(value_list))
             entry == Head(value_list)
         IN  IF Recognised(entry)
             THEN <<Author(Str(Unwrap(entry.type).str), Unwrap(entry.name).str)>> \o rest
             ELSE rest

\* C23: for an "author" array the extraction never fails: it drops every
\* entry whose @type is not Person or Organization (entries with no @type, no
\* name, or that are not objects included), keeps the recognised entries in
\* their order with their type, and yields None when no entry remains.
C23_SchemaAuthorsDropUnrecognised ==
    (pc = "schema_done" /\ fetched.value.json = "Array") =>
        /\ ~fetched.panicked
        /\ LET kept == KeptAuthors(fetched.value.list)
           IN  fetched.attribute =
                   IF kept = <<>> THEN None ELSE Some(Attr("Authors", kept))

----------------------------------------------------------------------------
(* html_meta.rs: the author of a page *)

\* keys(AttributeType::Author)
html_meta_author_keys == <<"author", "article:author", "byl">>

\* the selectors of try_find_author, in order
author_selectors ==
    <<"[itemprop=author] [itemprop=name]", "[itemprop=author]", "[rel=author]",
      ".author", ".byline", "[class*=author-name]", "[class*=byline]">>

\* str::trim: leading and trailing whitespace removed
RECURSIVE TrimStart(_)
TrimStart(text) ==
    IF text # <<>> /\ Head(text) \in Whitespace THEN TrimStart(Tail(text)) ELSE text

RECURSIVE TrimEnd(_)
TrimEnd(text) ==
    IF text # <<>> /\ text[Len(text)] \in Whitespace
    THEN TrimEnd(SubSeq(text, 1, Len(text) - 1)) ELSE text

Trim(text) == TrimEnd(TrimStart(text))

\* str::trim_start_matches: every leading repetition of the prefix removed
RECURSIVE trim_start_matches(_, _)
trim_start_matches(text, prefix) ==
    IF text # <<>> /\ Head(text) = prefix THEN trim_start_matches(Tail(text), prefix)
    ELSE text

\* str::len
RECURSIVE TextLen(_)
TextLen(text) == IF text = <<>> THEN 0 ELSE Len(Head(text)) + TextLen(Tail(text))

\* try_find_meta_content: per key the meta[name=key] element, then the
\* meta[property=key] element; the first content that is not blank
RECURSIVE try_find_meta_content(_, _)
try_find_meta_content(document, external_keys) ==
    IF external_keys = <<>> THEN None
    ELSE LET tag == document.meta[Head(external_keys)]
         IN  IF IsSome(tag.name) /\ Trim(Unwrap(tag.name)) # <<>> THEN tag.name
             ELSE IF IsSome(tag.property) /\ Trim(Unwrap(tag.property)) # <<>>
                  THEN tag.property
             ELSE try_find_meta_content(document, Tail(external_keys))

\* lines 110-127: the author of one selected element, if any
element_to_author(element_text) ==
    LET text == Trim(element_text)
    IN  IF text # <<>> /\ TextLen(text) < 200
        THEN LET cleaned ==
                     Trim(trim_start_matches(
                            trim_start_matches(
                              trim_start_matches(
                                trim_start_matches(text, "Af "), "By "), "af "), "by "))
             IN  IF cleaned # <<>> THEN Some(Author("Generic", cleaned)) ELSE None
        ELSE None

RECURSIVE FilterMapAuthors(_)
FilterMapAuthors(elements) ==
    IF elements = <<>> THEN <<>>
    ELSE LET a == element_to_author(Head(elements))
         IN  (IF IsSome(a) THEN <<Unwrap(a)>> ELSE <<>>) \o FilterMapAuthors(Tail(elements))

\* try_find_author: the authors of the first selector that yields any
RECURSIVE try_find_author(_, _)
try_find_author(document, selectors) ==
    IF selectors = <<>> THEN None
    ELSE LET authors == FilterMapAuthors(document.select[Head(selectors)])
         IN  IF authors # <<>> THEN Some(authors)
             ELSE try_find_author(document, Tail(selectors))

\* attribute_type_to_attribute for AttributeType::Author
html_meta_author_attribute(attribute_value) ==
    Some(Attr("Authors", <<Author("Generic", attribute_value)>>))

\* the content attributes of the meta tags of one key
SampleTags ==
    {[name |-> None, property |-> None],
     [name |-> Some(<<>>), property |-> None],
     [name |-> Some(<<"By ", "Jane", " ", "Smith">>), property |-> None],
     [name |-> None, property |-> Some(<<"Jane", " ", "Smith">>)],
     [name |-> Some(<<" ">>), property |-> Some(<<"Af ", "Jens", " ", "Hansen">>)]}

\* the texts of the elements a selector matches
SampleElements ==
    {<<"By ", "John", " ", "Doe">>, <<" ", "Af ", "Jens", " ", "Hansen", "\n">>,
     <<"by ", "By ", "Staff">>, <<"John", " ", "Doe">>, <<"By ", " ">>,
     <<"All rights reserved. No part of this page may be reproduced. All rights reserved. No part of this page may be reproduced. All rights reserved. No part of this page may be reproduced. All rights reserv">>}

\* the pages: meta tags for the three keys, elements for at most one selector
SampleDocuments ==
    {[meta |-> [k \in {"author", "article:author", "byl"} |->
                   CASE k = "author" -> a [] k = "article:author" -> b [] OTHER -> c],
      select |-> [sel \in {author_selectors[i] : i \in 1..Len(author_selectors)} |->
                   IF sel = s THEN elements ELSE <<>>]] :
        a \in SampleTags, b \in SampleTags, c \in SampleTags,
        s \in {"[itemprop=author]", ".byline"},
        elements \in ListsUpTo(SampleElements, 1)}

\* parse_attribute, lines 179-182: the meta tags first
AuthorFromMeta ==
    /\ pc = "html_author"
    /\ LET value == try_find_meta_content(fetched.document, html_meta_author_keys)
       IN  IF IsSome(value)
           THEN /\ fetched' = [fetched EXCEPT
                                  !.attribute = html_meta_author_attribute(Unwrap(value))]
                /\ pc' = "html_done"
           ELSE /\ UNCHANGED fetched
                /\ pc' = "html_fallback"
    /\ UNCHANGED <<parse_info, options, attributes, multi, ref, wayback, calls,
                   ai_seen, builderVars>>

\* lines 184-187: then the microdata and class patterns
AuthorFromPatterns ==
    /\ pc = "html_fallback"
    /\ LET authors == try_find_author(fetched.document, author_selectors)
       IN  fetched' = [fetched EXCEPT
                          !.fallback = TRUE,
                          !.attribute = IF IsSome(authors)
                                        THEN Some(Attr("Authors", Unwrap(authors)))
                                        ELSE None]
    /\ pc' = "html_done"
    /\ UNCHANGED <<parse_info, options, attributes, multi, ref, wayback, calls,
                   ai_seen, builderVars>>

InitHtmlAuthor ==
    /\ pc = "html_author"
    /\ \E document \in SampleDocuments :
          fetched = [document |-> document, fallback |-> FALSE, attribute |-> None]
    /\ parse_info = PageOf(None, [s \in AllSources |-> {}])
    /\ options = GenerationOptions(AttributeConfig_default, TranslationOptions_default,
                                   FALSE, FALSE, FALSE)
    /\ attributes = NoAttributes
    /\ multi = <<>>
    /\ ref = NoLocals
    /\ wayback = None
    /\ calls = <<>>
    /\ ai_seen = None
    /\ builder = <<>> /\ prev = <<>> /\ last_op = <<>>

NextHtmlAuthor == AuthorFromMeta \/ AuthorFromPatterns

SpecHtmlAuthor == InitHtmlAuthor /\ [][NextHtmlAuthor]_vars

----------------------------------------------------------------------------
(* C24 *)

\* some meta tag of the key list has content that is not blank
SomeMetaContent ==
    \E k \in DOMAIN fetched.document.meta :
        LET tag == fetched.document.meta[k]
        IN  \/ IsSome(tag.name) /\ Trim(Unwrap(tag.name)) # <<>>
            \/ IsSome(tag.property) /\ Trim(Unwrap(tag.property)) # <<>>

\* C24: every author name the HTML-meta source produces, from a meta tag or
\* from the microdata and class fallback, has no leading "By " or "Af "
\* prefix, and the fallback selectors are consulted only when no meta tag of
\* the key list has non-empty content.
C24_HtmlMetaAuthorsCleaned ==
    /\ fetched.fallback => ~SomeMetaContent
    /\ (pc = "html_done" /\ IsSome(fetched.attribute)) =>
          \A i \in 1..Len(Unwrap(fetched.attribute).val) :
              LET name == Unwrap(fetched.attribute).val[i].name
              IN  name # <<>> /\ Head(name) \notin {"By ", "Af "}

----------------------------------------------------------------------------
(* generator.rs AttributeConfig::parsers_used, as the Vec it returns *)

\* the fields of the serialized AttributeConfig, in one order of map.values()
config_field_order ==
    <<"title", "authors", "date", "archive_date", "language", "locale", "site",
      "url", "archive_url", "journal", "publisher", "institution", "volume">>

\* flattened_map: the priority lists of the fields, concatenated
RECURSIVE flattened_map(_, _)
flattened_map(config, fields) ==
    IF fields = <<>> THEN <<>>
    ELSE UnwrapOrDefault(config[Head(fields)]) \o flattened_map(config, Tail(fields))

\* the Vecs a HashSet can be collected into: its elements once, in any order
RECURSIVE HashSetToVecs(_)
HashSetToVecs(S) ==
    IF S = {} THEN {<<>>}
    ELSE UNION {{<<x>> \o v : v \in HashSetToVecs(S \ {x})} : x \in S}

\* the Vec returned when the flattened lists are not collected into a HashSet
parsers_used_vecs_not_unique(config) == {flattened_map(config, config_field_order)}

\* the Vecs parsers_used may return for the config
parsers_used_vecs(config) ==
    LET flattened == flattened_map(config, config_field_order)
    IN  HashSetToVecs({flattened[i] : i \in 1..Len(flattened)})

\* the configurations asked: the default, one list for every field, and one
\* field given a list of its own
ParsersConfigs ==
    {AttributeConfig_default}
    \cup {AttributeConfig_new(p) : p \in PriorityLists(MaxPriorityLen)}
    \cup {[AttributeConfig_default EXCEPT ![k] = Some(p)] :
            k \in {"title", "volume"}, p \in PriorityLists(MaxPriorityLen)}

\* config.parsers_used()
ParsersUsed ==
    /\ pc = "parsers"
    /\ \E result \in parsers_used_vecs(options.attribute_config) :
          fetched' = Some(result)
    /\ pc' = "parsers_done"
    /\ UNCHANGED <<parse_info, options, attributes, multi, ref, wayback, calls,
                   ai_seen, builderVars>>

InitParsers ==
    /\ pc = "parsers"
    /\ \E config \in ParsersConfigs :
          options = GenerationOptions(config, TranslationOptions_default,
                                      FALSE, FALSE, FALSE)
    /\ fetched = None
    /\ parse_info = PageOf(None, [s \in AllSources |-> {}])
    /\ attributes = NoAttributes
    /\ multi = <<>>
    /\ ref = NoLocals
    /\ wayback = None
    /\ calls = <<>>
    /\ ai_seen = None
    /\ builder = <<>> /\ prev = <<>> /\ last_op = <<>>

NextParsers == ParsersUsed

SpecParsers == InitParsers /\ [][NextParsers]_vars

----------------------------------------------------------------------------
(* C25 *)

\* the list a field counts for: its own, or the default list
ListOf(config, k) ==
    IF config[k] = None THEN <<"OpenGraph", "SchemaOrg", "HtmlMeta">>
    ELSE Unwrap(config[k])

\* the sources that occur in the list of some field
Occurring(config) ==
    {s \in MetadataType :
        \E k \in ConfigFields : \E i \in 1..Len(ListOf(config, k)) : ListOf(config, k)[i] = s}

\* C25: parsers_used returns exactly the sources that occur in the priority
\* list of some field, each source once, a field with no list counting as
\* [OpenGraph, SchemaOrg, HtmlMeta]; a config built from [OpenGraph, Doi]
\* yields {OpenGraph, Doi} and the default config {OpenGraph, SchemaOrg,
\* HtmlMeta}.
C25_ParsersUsedExactlyOnce ==
    pc = "parsers_done" =>
        LET result == Unwrap(fetched)
            config == options.attribute_config
            returned == {result[i] : i \in 1..Len(result)}
        IN  /\ returned = Occurring(config)
            /\ \A i, j \in 1..Len(result) : result[i] = result[j] => i = j
            /\ config = AttributeConfig_new(<<"OpenGraph", "Doi">>) =>
                  returned = {"OpenGraph", "Doi"}
            /\ config = AttributeConfig_default =>
                  returned = {"OpenGraph", "SchemaOrg", "HtmlMeta"}

\* the config of test_get_unique_parsers: thirteen copies of the list, two
\* parsers returned
C25_Witness ==
    /\ pc = "parsers_done"
    /\ options.attribute_config = AttributeConfig_new(<<"OpenGraph", "Doi">>)
    /\ Unwrap(fetched) = <<"Doi", "OpenGraph">>

----------------------------------------------------------------------------
(* C26 *)

\* the date-time the fourteen digits of a timestamp spell
SpelledBy(timestamp) ==
    [variant |-> "DateTime",
     year   |-> Number(SubSeq(timestamp, 1, 4)),
     month  |-> Number(SubSeq(timestamp, 5, 6)),
     day    |-> Number(SubSeq(timestamp, 7, 8)),
     hour   |-> Number(SubSeq(timestamp, 9, 10)),
     minute |-> Number(SubSeq(timestamp, 11, 12)),
     second |-> Number(SubSeq(timestamp, 13, 14))]

\* C26: in every Reference produced the archive url is present exactly when
\* the archive date is, and when present the date is the full DateTime that
\* the 14-digit timestamp of the snapshot spells, the snapshot being the one
\* whose url is reported: the query's result, or the save's redirect location
\* with the timestamp that follows /web/ in it.
C26_ArchiveFieldsPaired ==
    Returned =>
        /\ IsSome(ref.archive_url) <=> IsSome(ref.archive_date)
        /\ IsSome(ref.archive_url) =>
              /\ IsSome(wayback)
              /\ Unwrap(ref.archive_url) = Attr("ArchiveUrl", Unwrap(wayback).url)
              /\ Len(Unwrap(wayback).timestamp) = 14
              /\ Unwrap(ref.archive_date) =
                    Attr("ArchiveDate", SpelledBy(Unwrap(wayback).timestamp))
              /\ ArchiveCalls[Len(ArchiveCalls)] = Call("save", "Ok") =>
                    SplitWeb(Unwrap(wayback).url)[2]
                        = Unwrap(wayback).timestamp \o <<"/", Page>>

\* a Reference whose archive fields come from the redirect of a save request
C26_Witness ==
    /\ pc = "done"
    /\ IsSome(ref.archive_url) /\ IsSome(ref.archive_date)
    /\ ArchiveCalls = <<Call("query", "DeserializeError"), Call("save", "Ok")>>
    /\ Unwrap(ref.archive_date).val.year = 2026

----------------------------------------------------------------------------
(* C27 *)

\* the priority list field t is resolved with: the configured one, or the
\* default list
EffectivePriority(t) ==
    UnwrapOrDefault(AttributeConfig_get(options.attribute_config, t))

\* the multi-source entry of the first source of list p that has one for t
FirstEntry(p, t) ==
    LET hits == {i \in 1..Len(p) : HoldsEntry(t, p[i])}
    IN  IF hits = {} THEN None
        ELSE Some(multi[t][p[CHOOSE i \in hits : \A j \in hits : i <= j]])

\* C27: for one ParseInfo, every field and every priority list over the five
\* sources, the value the single-winner resolution gives the field is the
\* multi-source entry of the first source of the list that has an entry for
\* the field, and the field is unresolved exactly when no source of the list
\* has an entry for it.
C27_ResolutionRefinesMultiSource ==
    pc = "collected" =>
        \A t \in AttributeType :
            LET p == EffectivePriority(t)
            IN  (\A i \in 1..Len(p) : p[i] \in AllSources) =>
                    /\ attributes[t] = FirstEntry(p, t)
                    /\ attributes[t] = None <=> \A i \in 1..Len(p) : ~HoldsEntry(t, p[i])

\* a title that OpenGraph, Doi and Zotero have, resolved with the list
\* [SchemaOrg, Doi]: the Doi entry is the resolved value
C27_Witness ==
    /\ pc = "collected"
    /\ options.attribute_config.title = Some(<<"SchemaOrg", "Doi">>)
    /\ "Title" \in DOMAIN multi
    /\ DOMAIN multi["Title"] = {"OpenGraph", "Doi", "Zotero"}
    /\ attributes["Title"] = Some(multi["Title"]["Doi"])

----------------------------------------------------------------------------
(* C28 *)

\* C28: once the fields are resolved, the url of the Reference is the Url
\* value the priority resolution chose if there is one, and otherwise the
\* originating url of the request, so it is present whenever the request has
\* an originating url; the archive calls are made on exactly this url; and
\* with neither a resolved Url nor an originating url the url is absent and
\* no archive call is made.
C28_UrlFallback ==
    pc # "start" =>
        /\ attributes["Url"] # None => ref.url = attributes["Url"]
        /\ (attributes["Url"] = None /\ parse_info.url # None) =>
              ref.url = Some(Attr("Url", Unwrap(parse_info.url)))
        /\ parse_info.url # None => ref.url # None
        /\ ArchiveCalls # <<>> => (ref.url # None /\ fetched = Some(Unwrap(ref.url).val))
        /\ (attributes["Url"] = None /\ parse_info.url = None) =>
              (ref.url = None /\ ArchiveCalls = <<>>)

\* a Reference archived on the originating url, no source having a Url
C28_Witness ==
    /\ pc = "done"
    /\ attributes["Url"] = None
    /\ ref.url = Some(Attr("Url", UserUrl))
    /\ fetched = Some(UserUrl)
    /\ IsSome(ref.archive_url)

----------------------------------------------------------------------------
(* C29 *)

\* the parameter the Wiki builder writes the given date under
WikiDateParameter == IF GivenDate.type = "Date" THEN "| date = " ELSE "| archive-date = "

\* C29: the Wiki builder writes a date, as the date and as the archive-date
\* parameter, exactly as Display formats it, for every Date variant:
\* YYYY-MM-DD for DateTime and YearMonthDay, YYYY-MM with a two-digit month
\* for YearMonth, YYYY for Year.
C29_WikiDateAsDisplay ==
    LET date == GivenDate.val
    IN  /\ last_op.op = "display" =>
              Unwrap(last_op.out) =
                  CASE date.variant \in {"DateTime", "YearMonthDay"} ->
                          Pad4(date.year) \o <<"-">> \o Pad2(date.month)
                              \o <<"-">> \o Pad2(date.day)
                    [] date.variant = "YearMonth" ->
                          <<ToString(date.year), "-">> \o Pad2(date.month)
                    [] date.variant = "Year" -> <<ToString(date.year)>>
        /\ pc = "dated" =>
              Str(builder.wiki.formatted_string)
                  = "\n" \o WikiDateParameter \o Str(Date_Display(date))

----------------------------------------------------------------------------
(* doi.rs: Doi::parse_attribute on a bibliography of any number of entries *)

MaxEntries == 2

\* attribute_type_to_attribute for the types requested here: the Date arm,
\* and the arm `_ => None` that Language falls in
doi_attribute_type_to_attribute(entry, attribute_type) ==
    IF attribute_type = "Date" THEN Entry_date_attribute(entry) ELSE None

SampleEntries_doi ==
    {[date |-> None],
     [date |-> Some(Chunks)],
     [date |-> Some(Typed("At", Datetime(2024, Some(1), Some(15)), FALSE, FALSE))],
     [date |-> Some(Typed("At", Datetime(1970, Some(2), Some(30)), FALSE, FALSE))],
     [date |-> Some(Typed("At", Datetime(2024, Some(3), None), FALSE, FALSE))],
     [date |-> Some(Typed("At", Datetime(1970, None, None), FALSE, FALSE))],
     [date |-> Some(Typed("At", Datetime(2024, Some(1), Some(15)), TRUE, FALSE))],
     [date |-> Some(Typed("Between", Datetime(2024, Some(1), Some(15)), FALSE, FALSE))]}

\* line 224 and the assert! of lines 226-229: an absent bibliography is
\* None, a bibliography that has not exactly one entry panics
DoiAssertOneEntry ==
    /\ pc = "bib"
    /\ IF IsNone(parse_info.bibliography)
       THEN /\ pc' = "bib_done"
            /\ fetched' = [fetched EXCEPT !.attribute = None]
       ELSE IF Len(Unwrap(parse_info.bibliography)) = 1
            THEN /\ pc' = "bib_entry"
                 /\ UNCHANGED fetched
            ELSE /\ pc' = "bib_done"
                 /\ fetched' = [fetched EXCEPT !.panicked = TRUE]
    /\ UNCHANGED <<parse_info, options, attributes, multi, ref, wayback, calls,
                   ai_seen, builderVars>>

\* lines 232-233: the first entry, and the requested field of it
DoiRootEntry ==
    /\ pc = "bib_entry"
    /\ LET bib == Unwrap(parse_info.bibliography)
       IN  fetched' = [fetched EXCEPT
                          !.attribute =
                              IF bib = <<>> THEN None
                              ELSE doi_attribute_type_to_attribute(
                                       bib[1], fetched.attribute_type)]
    /\ pc' = "bib_done"
    /\ UNCHANGED <<parse_info, options, attributes, multi, ref, wayback, calls,
                   ai_seen, builderVars>>

InitBibliography ==
    /\ pc = "bib"
    /\ \E bibliography \in {None} \cup {Some(l) : l \in ListsUpTo(SampleEntries_doi, MaxEntries)} :
          parse_info = [url |-> Some(UserUrl), bibliography |-> bibliography]
    /\ \E attribute_type \in {"Date", "Language"} :
          fetched = [attribute_type |-> attribute_type, panicked |-> FALSE,
                     attribute |-> None]
    /\ options = GenerationOptions(AttributeConfig_default, TranslationOptions_default,
                                   FALSE, FALSE, FALSE)
    /\ attributes = NoAttributes
    /\ multi = <<>>
    /\ ref = NoLocals
    /\ wayback = None
    /\ calls = <<>>
    /\ ai_seen = None
    /\ builder = <<>> /\ prev = <<>> /\ last_op = <<>>

NextBibliography == DoiAssertOneEntry \/ DoiRootEntry

SpecBibliography == InitBibliography /\ [][NextBibliography]_vars

----------------------------------------------------------------------------
(* C30 *)

\* C30: for a bibliography of any number of entries, Doi::parse_attribute
\* returns the requested field of the first entry, None for an empty or an
\* absent bibliography, and never aborts.
C30_DoiFirstEntryOnly ==
    pc = "bib_done" =>
        /\ ~fetched.panicked
        /\ fetched.attribute =
              IF IsNone(parse_info.bibliography) \/ parse_info.bibliography = Some(<<>>)
              THEN None
              ELSE IF fetched.attribute_type = "Date"
                   THEN Entry_date_attribute(Unwrap(parse_info.bibliography)[1])
                   ELSE None

====
